---------------------------- MODULE Spec2Model ----------------------------
(***************************************************************************)
(* Household energy tracker: the tariff, limit, period and admin rules of  *)
(* the REST backend (routes/tariffs, routes/limits, routes/admin,          *)
(* middleware/auth, routes/consumption), as state machines over the        *)
(* database tables.                                                        *)
(*                                                                         *)
(* Representation.                                                         *)
(*  - An ISO date string "YYYY-MM-DD" is the number YYYYMMDD; the order of *)
(*    the numbers is the lexicographic order of the strings. 0 is the      *)
(*    empty string / null (falsy in JS), which no regular expression       *)
(*    check accepts.                                                       *)
(*  - A JS Date is the number of whole days since 1970-01-01 UTC (every    *)
(*    Date the code builds is at UTC midnight).                            *)
(*  - An optional JSON body field is a sequence: <<>> when the field is    *)
(*    undefined, <<v>> when it carries v.                                  *)
(***************************************************************************)
EXTENDS Integers, Sequences, FiniteSets, TLC

VARIABLES
    today,          \* todayISO(): the server's current date
    tariffs,        \* table tariffs: a set of rows
    nextTariffId,   \* AUTO_INCREMENT counter of tariffs
    limits,         \* table limits: a set of rows
    nextLimitId,    \* AUTO_INCREMENT counter of limits
    users,          \* table users: id -> [role, is_blocked]
    auditLog,       \* table audit_logs, in insertion order
    reqs,           \* requests in flight: slot -> the handler's position and locals
    calc,           \* the last period computation: [type, start, end]
    appliances,     \* table appliances: a set of rows
    records,        \* table consumption_records: a set of rows
    nextRecordId,   \* AUTO_INCREMENT counter of consumption_records
    progress,       \* the last answer of a limits read: [status, items, totals]
    device          \* the IoT client: its globals, queue and two tasks' positions

vars == <<today, tariffs, nextTariffId, limits, nextLimitId, users, auditLog,
          reqs, calc, appliances, records, nextRecordId, progress, device>>

\* The tables of routes/appliances and routes/consumption, and the answer of
\* the last read of the limits.
consumptionVars == <<appliances, records, nextRecordId, progress, device>>

-----------------------------------------------------------------------------
(* Bounds of the model *)

\* Calendar years covered by the period computations: 2023 .. 2023 + NumYears.
NumYears == 2

\* Limits are created while the AUTO_INCREMENT counter is at most MaxLimitId.
MaxLimitId == 2

\* Tariffs are created while the AUTO_INCREMENT counter is at most MaxTariffId.
MaxTariffId == 2

\* Admin requests are accepted while audit_logs has room for their records.
MaxAudit == 2

\* Consumption records are created while the AUTO_INCREMENT counter is at most
\* MaxRecordId.
MaxRecordId == 1

\* The consumption_records table a limits read starts from has at most
\* MaxUsage rows.
MaxUsage == 3

\* No limits read has been answered yet.
NoTotals ==
    [limits_count |-> 0, ok_count |-> 0, threshold_reached_count |-> 0,
     limit_exceeded_count |-> 0, total_limit_kwh |-> 0, total_used_kwh |-> 0]

NoProgress == [status |-> 0, items |-> <<>>, totals |-> NoTotals]

\* The IoT client after setup(): relay off, nothing metered, no limit known,
\* nothing queued, both tasks at the top of their loops.
NoDevice ==
    [gRelayOn |-> FALSE, sessionKwh |-> 0, modeIndex |-> 0,
     gLimitBlocked |-> FALSE, gForceStop |-> FALSE, qSend |-> <<>>,
     pc |-> "meter", forceStop |-> FALSE, owed |-> 0, lost |-> FALSE]

-----------------------------------------------------------------------------
(* JS Date arithmetic, as the runtime computes it *)

Min(a, b) == IF a <= b THEN a ELSE b

\* The element of a one-element set. Only({ F(x) : x \in {e} }) is F(e) with e
\* evaluated once, however often F uses x.
Only(S) == CHOOSE v \in S : TRUE

\* Date.UTC(y, monthIndex, day) in days since the epoch. monthIndex may lie
\* outside 0..11 and day outside the month (day 0 is the last day of the
\* previous month): both carry over, as in JS.
DateUTC(y, mi, d) ==
    LET y2  == y + (mi \div 12)
        m   == (mi % 12) + 1
        yy  == IF m <= 2 THEN y2 - 1 ELSE y2
        era == yy \div 400
        yoe == yy - era * 400
        mp  == (m + 9) % 12
        doy == (153 * mp + 2) \div 5
        doe == yoe * 365 + (yoe \div 4) - (yoe \div 100) + doy
    IN  era * 146097 + doe - 719468 + (d - 1)

\* The day of the era and the year of the era of a day count z from 0000-03-01.
DayOfEra(z) == z - (z \div 146097) * 146097

YearOfEra(doe) ==
    (doe - (doe \div 1460) + (doe \div 36524) - (doe \div 146096)) \div 365

\* The UTC fields of a Date: y is getUTCFullYear(), m - 1 is getUTCMonth() and
\* d is getUTCDate().
CivilFrom(z, doe, yoe) ==
    LET doy == doe - (365 * yoe + (yoe \div 4) - (yoe \div 100))
        mp  == (5 * doy + 2) \div 153
        m   == IF mp < 10 THEN mp + 3 ELSE mp - 9
    IN  [y |-> yoe + (z \div 146097) * 400 + (IF m <= 2 THEN 1 ELSE 0),
         m |-> m,
         d |-> doy - ((153 * mp + 2) \div 5) + 1]

CivilOf(dt) ==
    Only({ Only({ Only({ CivilFrom(z, doe, yoe) : yoe \in {YearOfEra(doe)} })
                  : doe \in {DayOfEra(z)} })
           : z \in {dt + 719468} })

-----------------------------------------------------------------------------
(* Date/period utilities of routes/limits *)

\* s.split('-').map(Number)
SplitY(s) == s \div 10000
SplitM(s) == (s \div 100) % 100
SplitD(s) == s % 100

parseDateUTC(s) == DateUTC(SplitY(s), SplitM(s) - 1, SplitD(s))

\* The regular expression accepts exactly 4-2-2 digits; then the date must
\* survive the round trip through Date.UTC.
isValidISODate(s) ==
    /\ s >= 1 /\ s <= 99999999
    /\ \E c \in {CivilOf(DateUTC(SplitY(s), SplitM(s) - 1, SplitD(s)))} :
          /\ c.y = SplitY(s)
          /\ c.m - 1 = SplitM(s) - 1
          /\ c.d = SplitD(s)

\* String(dateA) > String(dateB)
isAfter(dateA, dateB) == dateA > dateB

\* pad2 keeps the two digits of month and day.
formatDateUTC(dt) ==
    Only({ c.y * 10000 + c.m * 100 + c.d : c \in {CivilOf(dt)} })

addDaysUTC(dt, days) == dt + days

\* Mutant: the day of the month is not clamped to the target month's length.
addMonthsUTC_NoClamp(dt, months) ==
    Only({ LET targetMonthIndex == (c.m - 1) + months
               ty == c.y + (targetMonthIndex \div 12)
               tm == ((targetMonthIndex % 12) + 12) % 12
           IN  DateUTC(ty, tm, c.d)
           : c \in {CivilOf(dt)} })

addMonthsUTC(dt, months) ==
    Only({ LET y == c.y
               m == c.m - 1
               d == c.d
               targetMonthIndex == m + months
               ty == y + (targetMonthIndex \div 12)
               tm == ((targetMonthIndex % 12) + 12) % 12
               lastDay == CivilOf(DateUTC(ty, tm + 1, 0)).d
               day == Min(d, lastDay)
           IN  DateUTC(ty, tm, day)
           : c \in {CivilOf(dt)} })

\* Mutant: the year is advanced without the end-of-month clamp.
addYearsUTC_NoClamp(dt, years) ==
    Only({ DateUTC(c.y + years, c.m - 1, c.d) : c \in {CivilOf(dt)} })

addYearsUTC(dt, years) == addMonthsUTC(dt, years * 12)

\* null (no automatic end) is 0.
calcAutoPeriodEnd(periodType, startStr) ==
    CASE periodType = "week" ->
           formatDateUTC(addDaysUTC(parseDateUTC(startStr), 6))
      [] periodType = "month" ->
           formatDateUTC(addDaysUTC(addMonthsUTC(parseDateUTC(startStr), 1), -1))
      [] periodType = "year" ->
           formatDateUTC(addDaysUTC(addYearsUTC(parseDateUTC(startStr), 1), -1))
      [] OTHER -> 0

-----------------------------------------------------------------------------
(* The calendar, stated directly on (year, month, day) *)

IsLeapYear(y) == (y % 4 = 0 /\ y % 100 # 0) \/ y % 400 = 0

DaysInMonth(y, m) ==
    IF m = 2 THEN (IF IsLeapYear(y) THEN 29 ELSE 28)
    ELSE IF m \in {4, 6, 9, 11} THEN 30 ELSE 31

\* The ISO date of the day before y-m-d.
DayBefore(y, m, d) ==
    IF d > 1 THEN y * 10000 + m * 100 + (d - 1)
    ELSE IF m > 1 THEN y * 10000 + (m - 1) * 100 + DaysInMonth(y, m - 1)
    ELSE (y - 1) * 10000 + 1231

Years == 2023..(2023 + NumYears)

\* Every valid ISO date of the years covered.
ValidDates ==
    { y * 10000 + m * 100 + d : y \in Years, m \in 1..12, d \in 1..31 }
        \cap { s \in 20230101..(20231231 + NumYears * 10000) :
                 SplitM(s) \in 1..12 /\ SplitD(s) \in 1..DaysInMonth(SplitY(s), SplitM(s)) }

AutoTypes == {"week", "month", "year"}

-----------------------------------------------------------------------------
(* Period computation on its own: calcAutoPeriodEnd over every start date.  *)
(* calc.end = 0 until the end has been computed.                           *)

PeriodInit ==
    /\ calc \in [type : AutoTypes, start : ValidDates, end : {0}]
    /\ today = 20250615
    /\ tariffs = {} /\ nextTariffId = 1
    /\ limits = {} /\ nextLimitId = 1
    /\ users = <<>> /\ auditLog = <<>>
    /\ reqs = <<>>
    /\ appliances = {} /\ records = {} /\ nextRecordId = 1
    /\ progress = NoProgress
    /\ device = NoDevice

\* The limit handlers' call: the start has passed isValidISODate.
Compute ==
    /\ calc.end = 0
    /\ isValidISODate(calc.start)
    /\ calc' = [calc EXCEPT !.end = calcAutoPeriodEnd(calc.type, calc.start)]
    /\ UNCHANGED <<today, tariffs, nextTariffId, limits, nextLimitId, users,
                   auditLog, reqs>>
    /\ UNCHANGED consumptionVars

PeriodNext == Compute

SpecPeriod == PeriodInit /\ [][PeriodNext]_vars

\* C8 as stated: for period_type=month the computed period_end is the last day
\* of the start date's calendar month, and 2025-01-31 gives 2025-02-28.
C8_Original ==
    (calc.type = "month" /\ calc.end # 0) =>
        /\ calc.end = SplitY(calc.start) * 10000 + SplitM(calc.start) * 100
                        + DaysInMonth(SplitY(calc.start), SplitM(calc.start))
        /\ (calc.start = 20250131 => calc.end = 20250228)

\* C8 amended: for period_type=month the computed period_end is the day before
\* (start + 1 month, the day clamped to the target month's length); it is the
\* last day of the start date's calendar month exactly when the start is the
\* first of a month, and 2025-01-31 gives 2025-02-27.
C8_MonthEnd ==
    (calc.type = "month" /\ calc.end # 0) =>
        LET y  == SplitY(calc.start)
            m  == SplitM(calc.start)
            d  == SplitD(calc.start)
            ty == IF m = 12 THEN y + 1 ELSE y
            tm == IF m = 12 THEN 1 ELSE m + 1
        IN  /\ calc.end = DayBefore(ty, tm, Min(d, DaysInMonth(ty, tm)))
            /\ (calc.end = y * 10000 + m * 100 + DaysInMonth(y, m)) <=> (d = 1)
            /\ (calc.start = 20250131 => calc.end = 20250227)

C8_Witness == calc = [type |-> "month", start |-> 20250131, end |-> 20250227]

\* C9: for period_type=year the computed period_end is the day before the same
\* month and day one year later, a Feb 29 start being clamped to Feb 28 first
\* when the following year is not a leap year; it is a function of
\* (period_type, period_start) alone and never before period_start.
C9_YearEnd ==
    (calc.type = "year" /\ calc.end # 0) =>
        LET y == SplitY(calc.start)
            m == SplitM(calc.start)
            d == SplitD(calc.start)
            day == IF m = 2 /\ d = 29 /\ ~IsLeapYear(y + 1) THEN 28 ELSE d
        IN  /\ calc.end = DayBefore(y + 1, m, day)
            /\ calc.end >= calc.start

C9_Witness == calc = [type |-> "year", start |-> 20240229, end |-> 20250227]

-----------------------------------------------------------------------------
(* Values shared by the request handlers *)

\* The accounts that send tariff and limit requests.
UserIds == {1, 2}

NoCalc == [type |-> "week", start |-> 20250101, end |-> 0]

\* The value of an optional body field, dflt when the field is undefined.
FieldOr(field, dflt) == IF field = <<>> THEN dflt ELSE field[1]

\* instance.update(values) of the ORM: nothing is sent when no attribute of
\* the instance, as it was read, changes; otherwise one UPDATE ... WHERE id =
\* instance.id sets every attribute handed to update() and leaves the others
\* of the stored row alone. A row deleted in the meantime is not brought back.
InstanceUpdate(table, instance, values) ==
    IF \A k \in DOMAIN values : instance[k] = values[k] THEN table
    ELSE { IF r.id = instance.id
           THEN [k \in DOMAIN r |-> IF k \in DOMAIN values THEN values[k] ELSE r[k]]
           ELSE r : r \in table }

-----------------------------------------------------------------------------
(* routes/limits: validation *)

PERIOD_TYPES == {"week", "month", "year", "custom"}

\* Numbers of a body are given in units of 0.0001. decimalString(value, 3) is
\* the number in units of 0.001 after toFixed(3); <<>> is its null (the value
\* is undefined or not a finite number).
decimalString(value, digits) ==
    IF value = <<>> THEN <<>>
    ELSE IF digits = 3 THEN << (value[1] + 5) \div 10 >>
    ELSE << value[1] >>

\* JSON values that may stand where a boolean is expected, by name.
parseBool(v) ==
    IF v \in {"true", "num1", "str:true", "str:1"} THEN << TRUE >>
    ELSE IF v \in {"false", "num0", "str:false", "str:0"} THEN << FALSE >>
    ELSE <<>>

\* Mutant: a period_end of the body is taken as it is for the automatic types.
resolvePeriodEndOrFail_TrustBody(type, start, endFromBody, endFromDb) ==
    LET end == IF endFromBody # <<>> THEN endFromBody[1]
               ELSE IF type = "custom" THEN endFromDb
               ELSE calcAutoPeriodEnd(type, start)
    IN  IF ~isValidISODate(end) \/ isAfter(start, end)
        THEN [end |-> 0, expected |-> 0]
        ELSE [end |-> end, expected |-> 0]

\* [end, expected]: end = 0 is the null return (a 400 has been sent), expected
\* is the expected_period_end of that 400's body, 0 when it carries none.
resolvePeriodEndOrFail(type, start, endFromBody, endFromDb) ==
    IF type = "custom" THEN
        LET end == IF endFromBody # <<>> THEN endFromBody[1] ELSE endFromDb
        IN  IF ~isValidISODate(end) THEN [end |-> 0, expected |-> 0]
            ELSE IF isAfter(start, end) THEN [end |-> 0, expected |-> 0]
            ELSE [end |-> end, expected |-> 0]
    ELSE
        Only({ IF autoEnd = 0 THEN [end |-> 0, expected |-> 0]
               ELSE IF endFromBody # <<>> /\ ~isValidISODate(endFromBody[1])
                    THEN [end |-> 0, expected |-> 0]
               ELSE IF endFromBody # <<>> /\ endFromBody[1] # autoEnd
                    THEN [end |-> 0, expected |-> autoEnd]
               ELSE [end |-> autoEnd, expected |-> 0]
               : autoEnd \in {calcAutoPeriodEnd(type, start)} })

\* The outcome of a handler's validation: status 0 when every check passed,
\* with the values to persist; 400 otherwise.
Rejected(expected) ==
    [status |-> 400, expected |-> expected, period_type |-> "", period_start |-> 0,
     period_end |-> 0, limit_kwh |-> 0, alert_enabled |-> FALSE,
     alert_threshold_percent |-> 0]

Accepted(type, start, end, kwh, alert, threshold) ==
    [status |-> 0, expected |-> 0, period_type |-> type, period_start |-> start,
     period_end |-> end, limit_kwh |-> kwh, alert_enabled |-> alert,
     alert_threshold_percent |-> threshold]

\* The checks of limit_kwh, alert_enabled and alert_threshold_percent, once
\* the period is settled; each of the three is <<>> when it did not parse.
LimitPlanRest(type, start, r, limitStr, alertEnabled, threshold) ==
    IF r.end = 0 THEN Rejected(r.expected)
    ELSE IF limitStr = <<>> \/ limitStr[1] <= 0 THEN Rejected(0)
    ELSE IF alertEnabled = <<>> THEN Rejected(0)
    ELSE IF threshold < 1 \/ threshold > 100 THEN Rejected(0)
    ELSE Accepted(type, start, r.end, limitStr[1], alertEnabled[1], threshold)

\* router.post('/'), up to the overlap query.
LimitPostPlan(body) ==
    LET type  == IF body.period_type = <<>> THEN "" ELSE body.period_type[1]
        start == IF body.period_start = <<>> THEN 0 ELSE body.period_start[1]
        limitStr == decimalString(body.limit_kwh, 3)
        alertEnabledParsed ==
            IF body.alert_enabled = <<>> THEN << TRUE >>
            ELSE parseBool(body.alert_enabled[1])
        thresholdRaw ==
            IF body.alert_threshold_percent = <<>> THEN 80
            ELSE body.alert_threshold_percent[1]
    IN  IF type \notin PERIOD_TYPES THEN Rejected(0)
        ELSE IF ~isValidISODate(start) THEN Rejected(0)
        ELSE Only({ LimitPlanRest(type, start, r, limitStr, alertEnabledParsed,
                                  thresholdRaw)
                    : r \in {resolvePeriodEndOrFail(type, start, body.period_end, 0)} })

\* router.patch('/:id'), from the row found up to the overlap query.
LimitPatchPlan(row, body) ==
    LET nextType  == IF body.period_type = <<>> THEN row.period_type
                     ELSE body.period_type[1]
        nextStart == IF body.period_start = <<>> THEN row.period_start
                     ELSE body.period_start[1]
        nextLimitStr == IF body.limit_kwh = <<>> THEN << row.limit_kwh >>
                        ELSE decimalString(body.limit_kwh, 3)
        nextAlertEnabled ==
            IF body.alert_enabled = <<>> THEN << row.alert_enabled >>
            ELSE parseBool(body.alert_enabled[1])
        nextThreshold ==
            IF body.alert_threshold_percent = <<>> THEN row.alert_threshold_percent
            ELSE body.alert_threshold_percent[1]
    IN  IF nextType \notin PERIOD_TYPES THEN Rejected(0)
        ELSE IF ~isValidISODate(nextStart) THEN Rejected(0)
        ELSE Only({ LimitPlanRest(nextType, nextStart, r, nextLimitStr,
                                  nextAlertEnabled, nextThreshold)
                    : r \in {resolvePeriodEndOrFail(nextType, nextStart,
                                                    body.period_end, row.period_end)} })

\* Mutant: the range comparison is strict, so ranges sharing a day pass.
findOverlappingLimit_Strict(table, userId, periodType, start, end, excludeId) ==
    { r \in table :
        /\ r.user_id = userId
        /\ r.period_type = periodType
        /\ r.period_start < end
        /\ r.period_end > start
        /\ (excludeId = <<>> \/ r.id # excludeId[1]) }

\* Mutant: the record being updated is not left out of the query.
findOverlappingLimit_NoExclude(table, userId, periodType, start, end, excludeId) ==
    { r \in table :
        /\ r.user_id = userId
        /\ r.period_type = periodType
        /\ r.period_start <= end
        /\ r.period_end >= start }

\* The rows Limit.findOne may return (the query states no order).
findOverlappingLimit(table, userId, periodType, start, end, excludeId) ==
    { r \in table :
        /\ r.user_id = userId
        /\ r.period_type = periodType
        /\ r.period_start <= end
        /\ r.period_end >= start
        /\ (excludeId = <<>> \/ r.id # excludeId[1]) }

\* The row a plan persists.
LimitRow(id, userId, plan) ==
    [id |-> id, user_id |-> userId, limit_kwh |-> plan.limit_kwh,
     period_type |-> plan.period_type, period_start |-> plan.period_start,
     period_end |-> plan.period_end, alert_enabled |-> plan.alert_enabled,
     alert_threshold_percent |-> plan.alert_threshold_percent]

\* Limit.findOne({ where: { id, user_id } })
LimitOf(table, id, userId) == { r \in table : r.id = id /\ r.user_id = userId }

-----------------------------------------------------------------------------
(* routes/limits: the handlers, one request at a time *)

NotLimits ==
    <<today, tariffs, nextTariffId, users, auditLog, reqs, calc, consumptionVars>>

\* What a limit handler leaves behind: the table, the AUTO_INCREMENT counter
\* and the response: its status, the id of the row in its body (0 when it
\* carries no row), expected_period_end and existing_limit_id (0 when absent).
LimitOutcome(table, nextId, status, id, expected, existing) ==
    [limits |-> table, nextLimitId |-> nextId, status |-> status, id |-> id,
     expected_period_end |-> expected, existing_limit_id |-> existing]

\* The handlers from the overlap query on, the validation having given plan.
LimitPostFinish(table, nextId, u, plan) ==
    IF plan.status # 0 THEN
        { LimitOutcome(table, nextId, 400, 0, plan.expected, 0) }
    ELSE
        UNION { IF overlap # {} THEN
                    { LimitOutcome(table, nextId, 409, 0, 0, o.id) : o \in overlap }
                ELSE
                    { LimitOutcome(table \cup {LimitRow(nextId, u, plan)},
                                   nextId + 1, 201, nextId, 0, 0) }
                : overlap \in { findOverlappingLimit(table, u, plan.period_type,
                                    plan.period_start, plan.period_end, <<>>) } }

LimitPatchFinish(table, nextId, row, plan) ==
    IF plan.status # 0 THEN
        { LimitOutcome(table, nextId, 400, 0, plan.expected, 0) }
    ELSE
        UNION { IF overlap # {} THEN
                    { LimitOutcome(table, nextId, 409, 0, 0, o.id) : o \in overlap }
                ELSE
                    { LimitOutcome(InstanceUpdate(table, row,
                                       LimitRow(row.id, row.user_id, plan)),
                                   nextId, 200, row.id, 0, 0) }
                : overlap \in { findOverlappingLimit(table, row.user_id,
                                    plan.period_type, plan.period_start,
                                    plan.period_end, << row.id >>) } }

\* POST /api/limits
LimitPostOutcomes(table, nextId, u, body) ==
    UNION { LimitPostFinish(table, nextId, u, plan) : plan \in {LimitPostPlan(body)} }

\* PATCH /api/limits/:id
LimitPatchOutcomes(table, nextId, u, id, body) ==
    IF LimitOf(table, id, u) = {} THEN
        { LimitOutcome(table, nextId, 404, 0, 0, 0) }
    ELSE
        UNION { UNION { LimitPatchFinish(table, nextId, row, plan)
                        : plan \in {LimitPatchPlan(row, body)} }
                : row \in LimitOf(table, id, u) }

\* DELETE /api/limits/:id
LimitDeleteOutcomes(table, nextId, u, id) ==
    IF LimitOf(table, id, u) = {} THEN
        { LimitOutcome(table, nextId, 404, 0, 0, 0) }
    ELSE
        { LimitOutcome({ r \in table : r.id # id }, nextId, 204, 0, 0, 0) }

\* A handler runs to its response; rows are created while the counter allows.
LimitApply(o) ==
    /\ o.nextLimitId <= MaxLimitId + 1
    /\ limits' = o.limits
    /\ nextLimitId' = o.nextLimitId
    /\ UNCHANGED NotLimits

LimitPost(u, body) ==
    \E o \in LimitPostOutcomes(limits, nextLimitId, u, body) : LimitApply(o)

LimitPatch(u, id, body) ==
    \E o \in LimitPatchOutcomes(limits, nextLimitId, u, id, body) : LimitApply(o)

LimitDelete(u, id) ==
    \E o \in LimitDeleteOutcomes(limits, nextLimitId, u, id) : LimitApply(o)

\* The request bodies sent to the limit handlers. Every combination of the
\* period fields, given or left out, with the other fields valid ...
LimitPeriodBodies ==
    [ period_type  : {<<>>, <<"week">>, <<"month">>, <<"year">>, <<"custom">>},
      period_start : {<<>>, <<20250101>>, <<20250108>>},
      period_end   : {<<>>, <<20250108>>, <<20250131>>},
      limit_kwh    : {<<1000000>>},
      alert_enabled : {<<>>},
      alert_threshold_percent : {<<>>} ]

LimitBody(type, start, end, kwh, alert, threshold) ==
    [ period_type |-> type, period_start |-> start, period_end |-> end,
      limit_kwh |-> kwh, alert_enabled |-> alert,
      alert_threshold_percent |-> threshold ]

\* ... and bodies with one field that fails its validation.
LimitBadBodies ==
    { LimitBody(<<"day">>, <<20250101>>, <<>>, <<1000000>>, <<>>, <<>>),
      LimitBody(<<"month">>, <<20250230>>, <<>>, <<1000000>>, <<>>, <<>>),
      LimitBody(<<"month">>, <<20250101>>, <<20250230>>, <<1000000>>, <<>>, <<>>),
      LimitBody(<<"custom">>, <<20250101>>, <<20250230>>, <<1000000>>, <<>>, <<>>),
      LimitBody(<<"month">>, <<20250101>>, <<>>, <<>>, <<>>, <<>>),
      LimitBody(<<"month">>, <<20250101>>, <<>>, <<4>>, <<>>, <<>>),
      LimitBody(<<"month">>, <<20250101>>, <<>>, <<1000000>>, <<"str:yes">>, <<>>),
      LimitBody(<<"month">>, <<20250101>>, <<>>, <<1000000>>, <<"str:true">>, <<0>>),
      LimitBody(<<"month">>, <<20250101>>, <<>>, <<1000000>>, <<"true">>, <<101>>) }

LimitBodies == LimitPeriodBodies \cup LimitBadBodies

\* The second account owns custom limits only, over the same dates.
LimitCustomBodies ==
    [ period_type  : {<<"custom">>},
      period_start : {<<20250101>>, <<20250108>>},
      period_end   : {<<20250108>>, <<20250131>>},
      limit_kwh    : {<<1000000>>},
      alert_enabled : {<<>>},
      alert_threshold_percent : {<<>>} ]

LimitBodiesOf(u) == IF u = 1 THEN LimitBodies ELSE LimitCustomBodies

LimitIds == 1..MaxLimitId

LimitInit ==
    /\ limits = {} /\ nextLimitId = 1
    /\ today = 20250615
    /\ tariffs = {} /\ nextTariffId = 1
    /\ users = <<>> /\ auditLog = <<>>
    /\ reqs = <<>>
    /\ calc = NoCalc
    /\ appliances = {} /\ records = {} /\ nextRecordId = 1
    /\ progress = NoProgress
    /\ device = NoDevice

LimitNext ==
    \/ \E u \in UserIds : \E body \in LimitBodiesOf(u) : LimitPost(u, body)
    \/ \E u \in UserIds, id \in LimitIds :
          \E body \in LimitBodiesOf(u) : LimitPatch(u, id, body)
    \/ \E u \in UserIds, id \in LimitIds : LimitDelete(u, id)

SpecLimit == LimitInit /\ [][LimitNext]_vars

\* Two limits of the same user and period_type whose ranges share a day.
LimitsOverlap(a, b) ==
    /\ a.id # b.id
    /\ a.user_id = b.user_id
    /\ a.period_type = b.period_type
    /\ a.period_start <= b.period_end
    /\ b.period_start <= a.period_end

\* C2: after every completed limit request, run one at a time, no two limits
\* of the same user and period_type have ranges that overlap inclusively.
C2_NoOverlap == \A a \in limits, b \in limits : ~LimitsOverlap(a, b)

\* Two limits of one user and type lie side by side.
C2_Witness ==
    \E a \in limits, b \in limits :
        /\ a.id # b.id /\ a.user_id = b.user_id
        /\ a.period_type = "week" /\ b.period_type = "week"
        /\ a.period_end < b.period_start

\* A body whose period_end is a date other than the one computed for the
\* type and start the request results in.
SuppliesOtherEnd(type, start, body) ==
    /\ type \in AutoTypes
    /\ isValidISODate(start)
    /\ body.period_end # <<>>
    /\ isValidISODate(body.period_end[1])
    /\ body.period_end[1] # calcAutoPeriodEnd(type, start)

\* The request fails with 400 carrying the expected end and persists nothing.
RefusedWithExpected(outcomes, expected) ==
    \A o \in outcomes :
        /\ o.status = 400
        /\ o.expected_period_end = expected
        /\ o.limits = limits
        /\ o.nextLimitId = nextLimitId

\* C10: every persisted week, month or year limit has the period_end computed
\* from its own period_type and period_start, after any sequence of creates and
\* updates; a create or update that supplies another period_end fails with 400
\* carrying the expected value and persists nothing.
C10_PeriodEndDerived ==
    /\ \A r \in limits :
          r.period_type \in AutoTypes =>
              r.period_end = calcAutoPeriodEnd(r.period_type, r.period_start)
    /\ \A u \in UserIds : \A body \in LimitBodiesOf(u) :
          LET type  == IF body.period_type = <<>> THEN "" ELSE body.period_type[1]
              start == IF body.period_start = <<>> THEN 0 ELSE body.period_start[1]
          IN  SuppliesOtherEnd(type, start, body) =>
                  RefusedWithExpected(LimitPostOutcomes(limits, nextLimitId, u, body),
                                      calcAutoPeriodEnd(type, start))
    /\ \A r \in limits : \A body \in LimitBodiesOf(r.user_id) :
          LET type  == IF body.period_type = <<>> THEN r.period_type
                       ELSE body.period_type[1]
              start == IF body.period_start = <<>> THEN r.period_start
                       ELSE body.period_start[1]
          IN  SuppliesOtherEnd(type, start, body) =>
                  RefusedWithExpected(
                      LimitPatchOutcomes(limits, nextLimitId, r.user_id, r.id, body),
                      calcAutoPeriodEnd(type, start))

\* A custom limit has been turned into a month limit by an update, and an
\* update of it that supplies 2025-01-31 is answered with the expected end.
C10_Witness ==
    \E r \in limits :
        /\ r.period_type = "month" /\ r.period_start = 20250108
        /\ r.period_end = 20250207
        /\ \E o \in LimitPatchOutcomes(limits, nextLimitId, r.user_id, r.id,
                      LimitBody(<<>>, <<>>, <<20250131>>, <<1000000>>, <<>>, <<>>)) :
              /\ o.status = 400
              /\ o.expected_period_end = 20250207

\* The period_end of the range a request asks for, 0 when its period fields
\* give no range (bad type, bad start, or an end that is refused).
CandidateEnd(type, start, endFromBody, endFromDb) ==
    IF type \in PERIOD_TYPES /\ isValidISODate(start)
    THEN resolvePeriodEndOrFail(type, start, endFromBody, endFromDb).end
    ELSE 0

\* The stored limits of the user and type, other than selfId, that share a day
\* with start..end.
Collisions(u, type, start, end, selfId) ==
    { r \in limits :
        /\ r.user_id = u /\ r.period_type = type /\ r.id # selfId
        /\ r.period_start <= end /\ r.period_end >= start }

\* The answer is 409 exactly when hits is not empty; a 409 names one of hits
\* and leaves the table as it is.
ConflictIff(outcomes, hits) ==
    \A o \in outcomes :
        /\ (o.status = 409) <=> (hits # {})
        /\ o.status = 409 =>
              /\ o.existing_limit_id \in { r.id : r \in hits }
              /\ o.limits = limits
              /\ o.nextLimitId = nextLimitId

\* C11 as stated: a limit create or update is answered with 409 exactly when
\* another limit of the same user and period_type shares a day with the range
\* asked for, whatever the other fields of the request are; the 409 names a
\* colliding limit and nothing is created or changed.
C11_Original ==
    /\ \A u \in UserIds : \A body \in LimitBodiesOf(u) :
          \E type \in {FieldOr(body.period_type, "")} :
          \E start \in {FieldOr(body.period_start, 0)} :
          \E end \in {CandidateEnd(type, start, body.period_end, 0)} :
              ConflictIff(LimitPostOutcomes(limits, nextLimitId, u, body),
                          IF end = 0 THEN {} ELSE Collisions(u, type, start, end, 0))
    /\ \A r \in limits : \A body \in LimitBodiesOf(r.user_id) :
          \E type \in {FieldOr(body.period_type, r.period_type)} :
          \E start \in {FieldOr(body.period_start, r.period_start)} :
          \E end \in {CandidateEnd(type, start, body.period_end, r.period_end)} :
              ConflictIff(LimitPatchOutcomes(limits, nextLimitId, r.user_id, r.id, body),
                          IF end = 0 THEN {}
                          ELSE Collisions(r.user_id, type, start, end, r.id))

\* C11 amended: a limit create or update whose fields all pass validation is
\* answered with 409 exactly when another limit of the same user and
\* period_type, other than the record being updated, has existing.start <=
\* candidate.end and existing.end >= candidate.start; the 409 names such a
\* limit and nothing is created or changed. A request with a field that fails
\* validation is answered with 400 and changes nothing, colliding or not.
C11_ConflictOnOverlap ==
    /\ \A u \in UserIds : \A body \in LimitBodiesOf(u) :
          \E plan \in {LimitPostPlan(body)} :
              IF plan.status = 0
              THEN ConflictIff(LimitPostOutcomes(limits, nextLimitId, u, body),
                               Collisions(u, plan.period_type, plan.period_start,
                                          plan.period_end, 0))
              ELSE \A o \in LimitPostOutcomes(limits, nextLimitId, u, body) :
                       o.status = 400 /\ o.limits = limits
    /\ \A r \in limits : \A body \in LimitBodiesOf(r.user_id) :
          \E plan \in {LimitPatchPlan(r, body)} :
              IF plan.status = 0
              THEN ConflictIff(
                       LimitPatchOutcomes(limits, nextLimitId, r.user_id, r.id, body),
                       Collisions(r.user_id, plan.period_type, plan.period_start,
                                  plan.period_end, r.id))
              ELSE \A o \in LimitPatchOutcomes(limits, nextLimitId, r.user_id,
                                                r.id, body) :
                       o.status = 400 /\ o.limits = limits

\* A month limit from 2025-01-01 is stored: a create of the month from
\* 2025-01-08 is answered with 409 naming it, and an update of it that keeps
\* its range is accepted.
C11_Witness ==
    \E r \in limits :
        /\ r.user_id = 1 /\ r.period_type = "month"
        /\ r.period_start = 20250101 /\ r.period_end = 20250131
        /\ \E o \in LimitPostOutcomes(limits, nextLimitId, 1,
                      LimitBody(<<"month">>, <<20250108>>, <<>>, <<1000000>>, <<>>, <<>>)) :
              o.status = 409 /\ o.existing_limit_id = r.id /\ o.limits = limits
        /\ \E o \in LimitPatchOutcomes(limits, nextLimitId, 1, r.id,
                      LimitBody(<<>>, <<>>, <<20250131>>, <<1000000>>, <<>>, <<>>)) :
              o.status = 200

-----------------------------------------------------------------------------
(* routes/tariffs: helpers *)

\* todayISO(): the date of the server's clock.
todayISO == today

\* Boolean(v) of a JSON value named as for parseBool; "null" is null and
\* "str:" the empty string.
Truthy(v) == v \in {"true", "num1", "str:true", "str:false", "str:1", "str:0"}

\* Mutant: the end of the validity range is not looked at.
isDateInRange_NoUpper(date, validFrom, validTo) ==
    ~(validFrom # 0 /\ date < validFrom)

\* A date of 0 (null or '') leaves its side of the range open.
isDateInRange(date, validFrom, validTo) ==
    /\ ~(validFrom # 0 /\ date < validFrom)
    /\ ~(validTo # 0 /\ date > validTo)

\* check.ok
assertCanBeActiveNow(validFrom, validTo) ==
    isDateInRange(todayISO, validFrom, validTo)

\* Mutant: the tariff is looked up by its id alone.
TariffOf_AnyOwner(table, id, userId) == { r \in table : r.id = id }

\* Tariff.findOne({ where: { id, user_id } })
TariffOf(table, id, userId) == { r \in table : r.id = id /\ r.user_id = userId }

\* Mutant: the other tariffs of the user are left as they are.
DeactivateOthers_Skip(table, userId, id) == table

\* Tariff.update({ is_active: false }, { where: { user_id, id: { [Op.ne]: id } } })
DeactivateOthers(table, userId, id) ==
    { IF r.user_id = userId /\ r.id # id THEN [r EXCEPT !.is_active = FALSE] ELSE r
      : r \in table }

-----------------------------------------------------------------------------
(* routes/tariffs: the handlers' checks and transactions *)

\* router.post('/'): the status of the early return, 0 when there is none.
TariffPostCheck(body) ==
    LET valid_from == FieldOr(body.valid_from, 0)
        valid_to   == FieldOr(body.valid_to, 0)
        makeActive == body.is_active # << "false" >>
    IN  IF \/ body.tariff_name \in {<<>>, << "" >>}
           \/ body.price_per_kwh = <<>>
           \/ valid_from = 0
        THEN 400
        ELSE IF valid_to # 0 /\ isAfter(valid_from, valid_to) THEN 400
        ELSE IF makeActive /\ ~assertCanBeActiveNow(valid_from, valid_to) THEN 400
        ELSE 0

\* Mutant: makeActive is the truthiness of is_active, true when it is absent.
TariffPostTx_Falsy(table, newId, userId, body) ==
    LET makeActive == body.is_active \notin { << "false" >>, << "num0" >> }
        newRow == [id |-> newId, user_id |-> userId,
                   tariff_name |-> body.tariff_name[1],
                   price_per_kwh |-> body.price_per_kwh[1],
                   valid_from |-> body.valid_from[1],
                   valid_to |-> FieldOr(body.valid_to, 0),
                   is_active |-> makeActive]
    IN  IF makeActive THEN DeactivateOthers(table \cup {newRow}, userId, newId)
        ELSE table \cup {newRow}

\* router.post('/'): the transaction.
TariffPostTx(table, newId, userId, body) ==
    LET makeActive == body.is_active # << "false" >>
        newRow == [id |-> newId, user_id |-> userId,
                   tariff_name |-> body.tariff_name[1],
                   price_per_kwh |-> body.price_per_kwh[1],
                   valid_from |-> body.valid_from[1],
                   valid_to |-> FieldOr(body.valid_to, 0),
                   is_active |-> makeActive]
    IN  IF makeActive THEN DeactivateOthers(table \cup {newRow}, userId, newId)
        ELSE table \cup {newRow}

\* router.patch('/:id'): the values computed from the row read and the body.
TariffPatchValues(row, body) ==
    [tariff_name   |-> FieldOr(body.tariff_name, row.tariff_name),
     price_per_kwh |-> FieldOr(body.price_per_kwh, row.price_per_kwh),
     valid_from    |-> FieldOr(body.valid_from, row.valid_from),
     valid_to      |-> FieldOr(body.valid_to, row.valid_to),
     is_active     |-> IF body.is_active = <<>> THEN row.is_active
                       ELSE Truthy(body.is_active[1])]

\* router.patch('/:id'): the status of the early return, 0 when there is none.
TariffPatchCheck(row, body) ==
    LET next == TariffPatchValues(row, body)
    IN  IF next.valid_to # 0 /\ isAfter(next.valid_from, next.valid_to) THEN 400
        ELSE IF next.is_active /\ ~assertCanBeActiveNow(next.valid_from, next.valid_to)
             THEN 400
        ELSE 0

\* router.patch('/:id'): the transaction; row is the instance read before it.
TariffPatchTx(table, row, body) ==
    InstanceUpdate(IF body.is_active = << "true" >>
                   THEN DeactivateOthers(table, row.user_id, row.id)
                   ELSE table,
                   row, TariffPatchValues(row, body))

\* router.post('/:id/activate'): the transaction.
TariffActivateTx(table, row) ==
    InstanceUpdate(DeactivateOthers(table, row.user_id, row.id),
                   row, [is_active |-> TRUE])

-----------------------------------------------------------------------------
(* routes/tariffs: the handlers, one request at a time *)

NotTariffs == <<limits, nextLimitId, users, auditLog, reqs, calc, consumptionVars>>

\* What a tariff handler leaves behind: the table, the AUTO_INCREMENT counter
\* and the response: its status and the id of the row in its body (0 when it
\* carries no row).
TariffOutcome(table, nextId, status, id) ==
    [tariffs |-> table, nextTariffId |-> nextId, status |-> status, id |-> id]

\* POST /api/tariffs
TariffPostOutcomes(table, nextId, u, body) ==
    IF TariffPostCheck(body) # 0 THEN
        { TariffOutcome(table, nextId, TariffPostCheck(body), 0) }
    ELSE
        { TariffOutcome(TariffPostTx(table, nextId, u, body), nextId + 1, 201, nextId) }

\* PATCH /api/tariffs/:id
TariffPatchOutcomes(table, nextId, u, id, body) ==
    IF TariffOf(table, id, u) = {} THEN { TariffOutcome(table, nextId, 404, 0) }
    ELSE { IF TariffPatchCheck(row, body) # 0
           THEN TariffOutcome(table, nextId, TariffPatchCheck(row, body), 0)
           ELSE TariffOutcome(TariffPatchTx(table, row, body), nextId, 200, id)
           : row \in TariffOf(table, id, u) }

\* Mutant: an active tariff is activated again like an inactive one.
TariffActivateOutcomes_Again(table, nextId, u, id) ==
    IF TariffOf(table, id, u) = {} THEN { TariffOutcome(table, nextId, 404, 0) }
    ELSE { IF ~assertCanBeActiveNow(row.valid_from, row.valid_to)
           THEN TariffOutcome(table, nextId, 400, 0)
           ELSE TariffOutcome(TariffActivateTx(table, row), nextId, 200, id)
           : row \in TariffOf(table, id, u) }

\* POST /api/tariffs/:id/activate
TariffActivateOutcomes(table, nextId, u, id) ==
    IF TariffOf(table, id, u) = {} THEN { TariffOutcome(table, nextId, 404, 0) }
    ELSE { IF row.is_active THEN TariffOutcome(table, nextId, 200, id)
           ELSE IF ~assertCanBeActiveNow(row.valid_from, row.valid_to)
                THEN TariffOutcome(table, nextId, 400, 0)
           ELSE TariffOutcome(TariffActivateTx(table, row), nextId, 200, id)
           : row \in TariffOf(table, id, u) }

\* DELETE /api/tariffs/:id
TariffDeleteOutcomes(table, nextId, u, id) ==
    IF TariffOf(table, id, u) = {} THEN { TariffOutcome(table, nextId, 404, 0) }
    ELSE { TariffOutcome({ r \in table : r.id # id }, nextId, 204, 0) }

\* Mutant: the user's consumption records are given the price of the tariff
\* that is active after the request.
TariffApply_Reprice(o) ==
    /\ o.nextTariffId <= MaxTariffId + 1
    /\ tariffs' = o.tariffs
    /\ nextTariffId' = o.nextTariffId
    /\ records' = { IF \E t \in o.tariffs : t.user_id = r.user_id /\ t.is_active
                    THEN [r EXCEPT !.applied_price_per_kwh =
                             (CHOOSE t \in o.tariffs :
                                 t.user_id = r.user_id /\ t.is_active).price_per_kwh]
                    ELSE r : r \in records }
    /\ UNCHANGED <<today, limits, nextLimitId, users, auditLog, reqs, calc,
                   appliances, nextRecordId, progress, device>>

\* A handler runs to its response; rows are created while the counter allows.
TariffApply(o) ==
    /\ o.nextTariffId <= MaxTariffId + 1
    /\ tariffs' = o.tariffs
    /\ nextTariffId' = o.nextTariffId
    /\ UNCHANGED today
    /\ UNCHANGED NotTariffs

TariffPost(u, body) ==
    \E o \in TariffPostOutcomes(tariffs, nextTariffId, u, body) : TariffApply(o)

TariffPatch(u, id, body) ==
    \E o \in TariffPatchOutcomes(tariffs, nextTariffId, u, id, body) : TariffApply(o)

TariffActivate(u, id) ==
    \E o \in TariffActivateOutcomes(tariffs, nextTariffId, u, id) : TariffApply(o)

TariffDelete(u, id) ==
    \E o \in TariffDeleteOutcomes(tariffs, nextTariffId, u, id) : TariffApply(o)

\* The days the server's clock shows.
Days == {20250615, 20250616}

\* Midnight passes.
Tick ==
    /\ formatDateUTC(addDaysUTC(parseDateUTC(today), 1)) \in Days
    /\ today' = formatDateUTC(addDaysUTC(parseDateUTC(today), 1))
    /\ UNCHANGED <<tariffs, nextTariffId>>
    /\ UNCHANGED NotTariffs

TariffBody(name, price, from, to, active) ==
    [ tariff_name |-> name, price_per_kwh |-> price, valid_from |-> from,
      valid_to |-> to, is_active |-> active ]

\* The request bodies sent to the tariff handlers: validity ranges that
\* contain the first day, the second day, both (<<0>> is valid_to: null) or are
\* empty, with is_active left out, a boolean, or another JSON value ...
TariffBodies ==
    [ tariff_name   : {<< "day" >>},
      price_per_kwh : {<< 43200 >>},
      valid_from    : {<<>>, << 20250101 >>, << 20250616 >>},
      valid_to      : {<<>>, << 0 >>, << 20250615 >>, << 20251231 >>},
      is_active     : {<<>>, << "true" >>, << "false" >>, << "num1" >>,
                       << "num0" >>, << "str:true" >>} ]

\* ... and bodies without a name or a price.
TariffBadBodies ==
    { TariffBody(<<>>, << 43200 >>, << 20250101 >>, <<>>, <<>>),
      TariffBody(<< "" >>, << 43200 >>, << 20250101 >>, <<>>, <<>>),
      TariffBody(<< "day" >>, <<>>, << 20250101 >>, <<>>, <<>>) }

\* The second account sends booleans only, over one validity range.
TariffPlainBodies ==
    [ tariff_name   : {<< "night" >>},
      price_per_kwh : {<< 43200 >>},
      valid_from    : {<< 20250101 >>},
      valid_to      : {<<>>},
      is_active     : {<<>>, << "true" >>, << "false" >>} ]

TariffBodiesOf(u) ==
    IF u = 1 THEN TariffBodies \cup TariffBadBodies ELSE TariffPlainBodies

TariffIds == 1..MaxTariffId

TariffInit ==
    /\ tariffs = {} /\ nextTariffId = 1
    /\ today = 20250615
    /\ limits = {} /\ nextLimitId = 1
    /\ users = <<>> /\ auditLog = <<>>
    /\ reqs = <<>>
    /\ calc = NoCalc
    /\ appliances = {} /\ records = {} /\ nextRecordId = 1
    /\ progress = NoProgress
    /\ device = NoDevice

TariffNext ==
    \/ \E u \in UserIds : \E body \in TariffBodiesOf(u) : TariffPost(u, body)
    \/ \E u \in UserIds, id \in TariffIds :
          \E body \in TariffBodiesOf(u) : TariffPatch(u, id, body)
    \/ \E u \in UserIds, id \in TariffIds : TariffActivate(u, id)
    \/ \E u \in UserIds, id \in TariffIds : TariffDelete(u, id)
    \/ Tick

SpecTariff == TariffInit /\ [][TariffNext]_vars

ActiveTariffs(table, userId) == { r \in table : r.user_id = userId /\ r.is_active }

\* C1: after every completed tariff request, run one at a time with any body
\* (is_active true, false, absent or a non-boolean value), each user has at
\* most one tariff with is_active = true.
C1_AtMostOneActive ==
    \A u \in UserIds : Cardinality(ActiveTariffs(tariffs, u)) <= 1

\* C12: activating a tariff that is already active is answered with 200 and
\* that tariff, and writes nothing: the tariffs table is the same after it,
\* whatever today's date is relative to the tariff's validity range, and the
\* same call repeated gives the same answer and the same table.
C12_ActivateIdempotent ==
    \A u \in UserIds : \A row \in ActiveTariffs(tariffs, u) :
        \A o \in TariffActivateOutcomes(tariffs, nextTariffId, u, row.id) :
            /\ o.status = 200 /\ o.id = row.id
            /\ o.tariffs = tariffs
            /\ o.nextTariffId = nextTariffId
            /\ TariffActivateOutcomes(o.tariffs, o.nextTariffId, u, row.id) = {o}

\* The day after the last day of an active tariff's validity range, with a
\* second tariff of the user stored: the activation is answered with 200.
C12_Witness ==
    \E row \in ActiveTariffs(tariffs, 1) :
        /\ row.valid_to # 0 /\ today > row.valid_to
        /\ \E other \in tariffs : other.user_id = 1 /\ other.id # row.id
        /\ \E o \in TariffActivateOutcomes(tariffs, nextTariffId, 1, row.id) :
              o.status = 200 /\ o.tariffs = tariffs

\* A table with is_active set to FALSE in every row.
WithoutActive(table) == { [r EXCEPT !.is_active = FALSE] : r \in table }

\* C13: after an activation of tariff T by user U answered with 200, T is
\* active and every other tariff of U is inactive, the tariffs of the other
\* users are as before, and so are all fields other than is_active of U's
\* tariffs.
C13_ActivateSwitches ==
    \A u \in UserIds : \A id \in TariffIds :
        \A o \in TariffActivateOutcomes(tariffs, nextTariffId, u, id) :
            o.status = 200 =>
                /\ \A r \in o.tariffs : r.user_id = u => (r.is_active <=> r.id = id)
                /\ { r \in o.tariffs : r.user_id # u } = { r \in tariffs : r.user_id # u }
                /\ WithoutActive(o.tariffs) = WithoutActive(tariffs)

\* Today lies within the validity range; no valid_from at all is no range.
TodayWithin(validFrom, validTo) ==
    /\ validFrom # 0 /\ validFrom <= today
    /\ (validTo = 0 \/ today <= validTo)

\* The request is refused with 400 and the tariffs table is as before.
TariffRefused(outcomes) ==
    \A o \in outcomes :
        o.status = 400 /\ o.tariffs = tariffs /\ o.nextTariffId = nextTariffId

\* A tariff an answered request has created or changed is active only with
\* today in its range.
ChangedActiveInRange(outcomes) ==
    \A o \in outcomes : \A r \in o.tariffs \ tariffs :
        r.is_active => TodayWithin(r.valid_from, r.valid_to)

\* C14: a request that would leave the tariff it creates or changes active
\* (activate of an inactive tariff, create with is_active not false, patch
\* whose resulting is_active is true, the patch of the dates of an active
\* tariff included) is refused with 400 when today lies outside [valid_from,
\* valid_to] (valid_to null: no upper bound), leaving every tariff as it is;
\* and whatever an accepted request creates or changes is active only with
\* today in its range.
C14_ActiveOnlyInRange ==
    /\ \A u \in UserIds : \A body \in TariffBodiesOf(u) :
          \E os \in {TariffPostOutcomes(tariffs, nextTariffId, u, body)} :
              /\ ChangedActiveInRange(os)
              /\ ( /\ body.is_active # << "false" >>
                   /\ ~TodayWithin(FieldOr(body.valid_from, 0),
                                   FieldOr(body.valid_to, 0)) )
                  => TariffRefused(os)
    /\ \A row \in tariffs : \A body \in TariffBodiesOf(row.user_id) :
          \E os \in {TariffPatchOutcomes(tariffs, nextTariffId, row.user_id,
                                          row.id, body)} :
              /\ ChangedActiveInRange(os)
              /\ ( /\ (IF body.is_active = <<>> THEN row.is_active
                       ELSE Truthy(body.is_active[1]))
                   /\ ~TodayWithin(FieldOr(body.valid_from, row.valid_from),
                                   FieldOr(body.valid_to, row.valid_to)) )
                  => TariffRefused(os)
    /\ \A row \in tariffs :
          \E os \in {TariffActivateOutcomes(tariffs, nextTariffId, row.user_id,
                                             row.id)} :
              /\ ChangedActiveInRange(os)
              /\ (~row.is_active /\ ~TodayWithin(row.valid_from, row.valid_to))
                  => TariffRefused(os)

\* The day after the last day of an inactive tariff's range its activation is
\* refused, and so is the patch of an active tariff that would end its range
\* the day before; a create with today in its range is accepted.
C14_Witness ==
    /\ today = 20250616
    /\ \E row \in tariffs :
          /\ ~row.is_active /\ row.valid_to = 20250615
          /\ TariffRefused(TariffActivateOutcomes(tariffs, nextTariffId,
                                                  row.user_id, row.id))
    /\ \E row \in ActiveTariffs(tariffs, 1) :
          TariffRefused(TariffPatchOutcomes(tariffs, nextTariffId, 1, row.id,
              TariffBody(<<>>, <<>>, <<>>, << 20250615 >>, <<>>)))

-----------------------------------------------------------------------------
(* routes/limits: requests in flight together. A step is one query on the    *)
(* database together with the handler's code up to its next query or its     *)
(* response; the body of a request is looked at in the step that first uses  *)
(* it. A slot is idle again once its request is answered.                    *)

\* The connections on which requests arrive.
Slots == {1, 2}

LimitIdle == [pc |-> "idle", user_id |-> 0, row |-> <<>>, plan |-> <<>>]

NotLimitsNorReqs ==
    <<today, tariffs, nextTariffId, users, auditLog, calc, consumptionVars>>

\* Limit.create calls that have passed their overlap query.
LimitCreatesInFlight == Cardinality({ t \in Slots : reqs[t].pc = "create" })

\* POST /api/limits up to the answer of findOverlappingLimit: 400 and 409 end
\* the request.
LimitPostCheckStep(s, u, body) ==
    /\ reqs[s].pc = "idle"
    /\ nextLimitId + LimitCreatesInFlight <= MaxLimitId
    /\ \E plan \in {LimitPostPlan(body)} :
          IF plan.status # 0 THEN UNCHANGED reqs
          ELSE IF findOverlappingLimit(limits, u, plan.period_type,
                      plan.period_start, plan.period_end, <<>>) # {}
               THEN UNCHANGED reqs
          ELSE reqs' = [reqs EXCEPT ![s] = [pc |-> "create", user_id |-> u,
                                            row |-> <<>>, plan |-> << plan >>]]
    /\ UNCHANGED <<limits, nextLimitId>>
    /\ UNCHANGED NotLimitsNorReqs

\* POST /api/limits: Limit.create and the 201.
LimitCreateStep(s) ==
    /\ reqs[s].pc = "create"
    /\ limits' = limits \cup {LimitRow(nextLimitId, reqs[s].user_id, reqs[s].plan[1])}
    /\ nextLimitId' = nextLimitId + 1
    /\ reqs' = [reqs EXCEPT ![s] = LimitIdle]
    /\ UNCHANGED NotLimitsNorReqs

\* PATCH /api/limits/:id: Limit.findOne; 404 ends the request.
LimitPatchFindStep(s, u, id) ==
    /\ reqs[s].pc = "idle"
    /\ IF LimitOf(limits, id, u) = {} THEN UNCHANGED reqs
       ELSE \E row \in LimitOf(limits, id, u) :
               reqs' = [reqs EXCEPT ![s] = [pc |-> "patch", user_id |-> u,
                                            row |-> << row >>, plan |-> <<>>]]
    /\ UNCHANGED <<limits, nextLimitId>>
    /\ UNCHANGED NotLimitsNorReqs

\* PATCH /api/limits/:id from the row found up to the answer of
\* findOverlappingLimit: 400 and 409 end the request.
LimitPatchCheckStep(s, body) ==
    /\ reqs[s].pc = "patch"
    /\ \E plan \in {LimitPatchPlan(reqs[s].row[1], body)} :
          IF plan.status # 0 THEN reqs' = [reqs EXCEPT ![s] = LimitIdle]
          ELSE IF findOverlappingLimit(limits, reqs[s].user_id, plan.period_type,
                      plan.period_start, plan.period_end,
                      << reqs[s].row[1].id >>) # {}
               THEN reqs' = [reqs EXCEPT ![s] = LimitIdle]
          ELSE reqs' = [reqs EXCEPT ![s] = [pc |-> "update",
                                            user_id |-> reqs[s].user_id,
                                            row |-> reqs[s].row,
                                            plan |-> << plan >>]]
    /\ UNCHANGED <<limits, nextLimitId>>
    /\ UNCHANGED NotLimitsNorReqs

\* PATCH /api/limits/:id: row.update and the 200.
LimitUpdateStep(s) ==
    /\ reqs[s].pc = "update"
    /\ limits' = InstanceUpdate(limits, reqs[s].row[1],
                     LimitRow(reqs[s].row[1].id, reqs[s].user_id, reqs[s].plan[1]))
    /\ reqs' = [reqs EXCEPT ![s] = LimitIdle]
    /\ UNCHANGED nextLimitId
    /\ UNCHANGED NotLimitsNorReqs

\* DELETE /api/limits/:id: Limit.findOne; 404 ends the request.
LimitDeleteFindStep(s, u, id) ==
    /\ reqs[s].pc = "idle"
    /\ IF LimitOf(limits, id, u) = {} THEN UNCHANGED reqs
       ELSE \E row \in LimitOf(limits, id, u) :
               reqs' = [reqs EXCEPT ![s] = [pc |-> "destroy", user_id |-> u,
                                            row |-> << row >>, plan |-> <<>>]]
    /\ UNCHANGED <<limits, nextLimitId>>
    /\ UNCHANGED NotLimitsNorReqs

\* DELETE /api/limits/:id: row.destroy and the 204.
LimitDestroyStep(s) ==
    /\ reqs[s].pc = "destroy"
    /\ limits' = { r \in limits : r.id # reqs[s].row[1].id }
    /\ reqs' = [reqs EXCEPT ![s] = LimitIdle]
    /\ UNCHANGED nextLimitId
    /\ UNCHANGED NotLimitsNorReqs

\* Week limits that start four days apart: neighbours overlap, the first and
\* the third do not.
LimitWeekBodies ==
    [ period_type  : {<< "week" >>},
      period_start : {<< 20250101 >>, << 20250105 >>, << 20250109 >>},
      period_end   : {<<>>},
      limit_kwh    : {<< 1000000 >>},
      alert_enabled : {<<>>},
      alert_threshold_percent : {<<>>} ]

LimitConcInit ==
    /\ limits = {} /\ nextLimitId = 1
    /\ reqs = [s \in Slots |-> LimitIdle]
    /\ today = 20250615
    /\ tariffs = {} /\ nextTariffId = 1
    /\ users = <<>> /\ auditLog = <<>>
    /\ calc = NoCalc
    /\ appliances = {} /\ records = {} /\ nextRecordId = 1
    /\ progress = NoProgress
    /\ device = NoDevice

LimitConcNext ==
    \/ \E s \in Slots, u \in UserIds, body \in LimitWeekBodies :
          LimitPostCheckStep(s, u, body)
    \/ \E s \in Slots : LimitCreateStep(s)
    \/ \E s \in Slots, u \in UserIds, id \in LimitIds : LimitPatchFindStep(s, u, id)
    \/ \E s \in Slots, body \in LimitWeekBodies : LimitPatchCheckStep(s, body)
    \/ \E s \in Slots : LimitUpdateStep(s)
    \/ \E s \in Slots, u \in UserIds, id \in LimitIds : LimitDeleteFindStep(s, u, id)
    \/ \E s \in Slots : LimitDestroyStep(s)

SpecLimitConc == LimitConcInit /\ [][LimitConcNext]_vars

\* C3: when requests of one user that create or update limits of one
\* period_type with overlapping ranges run together, then however their
\* overlap queries and writes interleave, the table never holds two of that
\* user's limits of that type whose ranges overlap.
C3_NeverBothPersisted ==
    ~ \E a \in limits : \E b \in limits \ {a} : LimitsOverlap(a, b)

-----------------------------------------------------------------------------
(* routes/consumption: the lookup of the active tariff *)

\* The ids of at most limit rows, highest id first: order: [['id', 'DESC']].
RECURSIVE IdsDesc(_, _)
IdsDesc(rows, limit) ==
    IF rows = {} \/ limit = 0 THEN <<>>
    ELSE LET top == CHOOSE r \in rows : \A q \in rows : q.id <= r.id
         IN  << top.id >> \o IdsDesc(rows \ {top}, limit - 1)

\* Mutant: of several active tariffs the one with the highest id is taken.
getActiveTariffStrict_First(table, userId) ==
    LET ids == IdsDesc(ActiveTariffs(table, userId), 1)
    IN  IF Len(ids) = 0 THEN [code |-> "NO_ACTIVE", ids |-> ids]
        ELSE [code |-> "OK", ids |-> ids]

\* code "OK" stands for ok: true, with ids[1] the id of its tariff.
getActiveTariffStrict(table, userId) ==
    LET ids == IdsDesc(ActiveTariffs(table, userId), 2)
    IN  IF Len(ids) = 0 THEN [code |-> "NO_ACTIVE", ids |-> ids]
        ELSE IF Len(ids) > 1 THEN [code |-> "MANY_ACTIVE", ids |-> ids]
        ELSE [code |-> "OK", ids |-> ids]

-----------------------------------------------------------------------------
(* routes/tariffs: requests in flight together, with the lookups of          *)
(* routes/consumption. The statements a handler gives to                     *)
(* sequelize.transaction take effect together, at its commit.                *)

TariffIdle == [pc |-> "idle", user_id |-> 0, row |-> <<>>, body |-> <<>>, seen |-> <<>>]

TariffSlot(pc, u, row, body) ==
    [pc |-> pc, user_id |-> u, row |-> row, body |-> body, seen |-> <<>>]

NotTariffsNorReqs ==
    <<today, limits, nextLimitId, users, auditLog, calc, consumptionVars>>

TariffCreatesInFlight == Cardinality({ t \in Slots : reqs[t].pc = "postTx" })

\* POST /api/tariffs up to the transaction; 400 ends the request.
TariffPostCheckStep(s, u, body) ==
    /\ reqs[s].pc = "idle"
    /\ nextTariffId + TariffCreatesInFlight <= MaxTariffId
    /\ IF TariffPostCheck(body) # 0 THEN UNCHANGED reqs
       ELSE reqs' = [reqs EXCEPT ![s] = TariffSlot("postTx", u, <<>>, << body >>)]
    /\ UNCHANGED <<tariffs, nextTariffId>>
    /\ UNCHANGED NotTariffsNorReqs

\* POST /api/tariffs: the transaction and the 201.
TariffPostTxStep(s) ==
    /\ reqs[s].pc = "postTx"
    /\ tariffs' = TariffPostTx(tariffs, nextTariffId, reqs[s].user_id, reqs[s].body[1])
    /\ nextTariffId' = nextTariffId + 1
    /\ reqs' = [reqs EXCEPT ![s] = TariffIdle]
    /\ UNCHANGED NotTariffsNorReqs

\* PATCH /api/tariffs/:id: Tariff.findOne and the checks on the row read; 404
\* and 400 end the request.
TariffPatchFindStep(s, u, id, body) ==
    /\ reqs[s].pc = "idle"
    /\ IF TariffOf(tariffs, id, u) = {} THEN UNCHANGED reqs
       ELSE \E row \in TariffOf(tariffs, id, u) :
               IF TariffPatchCheck(row, body) # 0 THEN UNCHANGED reqs
               ELSE reqs' = [reqs EXCEPT ![s] =
                                TariffSlot("patchTx", u, << row >>, << body >>)]
    /\ UNCHANGED <<tariffs, nextTariffId>>
    /\ UNCHANGED NotTariffsNorReqs

\* PATCH /api/tariffs/:id: the transaction and the 200.
TariffPatchTxStep(s) ==
    /\ reqs[s].pc = "patchTx"
    /\ tariffs' = TariffPatchTx(tariffs, reqs[s].row[1], reqs[s].body[1])
    /\ reqs' = [reqs EXCEPT ![s] = TariffIdle]
    /\ UNCHANGED nextTariffId
    /\ UNCHANGED NotTariffsNorReqs

\* POST /api/tariffs/:id/activate: Tariff.findOne and the checks on the row
\* read; 404, the 200 for an active row and 400 end the request.
TariffActivateFindStep(s, u, id) ==
    /\ reqs[s].pc = "idle"
    /\ IF TariffOf(tariffs, id, u) = {} THEN UNCHANGED reqs
       ELSE \E row \in TariffOf(tariffs, id, u) :
               IF row.is_active THEN UNCHANGED reqs
               ELSE IF ~assertCanBeActiveNow(row.valid_from, row.valid_to)
                    THEN UNCHANGED reqs
               ELSE reqs' = [reqs EXCEPT ![s] =
                                TariffSlot("activateTx", u, << row >>, <<>>)]
    /\ UNCHANGED <<tariffs, nextTariffId>>
    /\ UNCHANGED NotTariffsNorReqs

\* POST /api/tariffs/:id/activate: the transaction and the 200.
TariffActivateTxStep(s) ==
    /\ reqs[s].pc = "activateTx"
    /\ tariffs' = TariffActivateTx(tariffs, reqs[s].row[1])
    /\ reqs' = [reqs EXCEPT ![s] = TariffIdle]
    /\ UNCHANGED nextTariffId
    /\ UNCHANGED NotTariffsNorReqs

\* DELETE /api/tariffs/:id: Tariff.findOne; 404 ends the request.
TariffDeleteFindStep(s, u, id) ==
    /\ reqs[s].pc = "idle"
    /\ IF TariffOf(tariffs, id, u) = {} THEN UNCHANGED reqs
       ELSE \E row \in TariffOf(tariffs, id, u) :
               reqs' = [reqs EXCEPT ![s] = TariffSlot("destroy", u, << row >>, <<>>)]
    /\ UNCHANGED <<tariffs, nextTariffId>>
    /\ UNCHANGED NotTariffsNorReqs

\* DELETE /api/tariffs/:id: row.destroy and the 204.
TariffDestroyStep(s) ==
    /\ reqs[s].pc = "destroy"
    /\ tariffs' = { r \in tariffs : r.id # reqs[s].row[1].id }
    /\ reqs' = [reqs EXCEPT ![s] = TariffIdle]
    /\ UNCHANGED nextTariffId
    /\ UNCHANGED NotTariffsNorReqs

\* POST or PATCH /api/consumption: the query of getActiveTariffStrict.
TariffLookupStep(s, u) ==
    /\ reqs[s].pc = "idle"
    /\ reqs' = [reqs EXCEPT ![s] =
                   [pc |-> "looked", user_id |-> u, row |-> <<>>, body |-> <<>>,
                    seen |-> << getActiveTariffStrict(tariffs, u) >>]]
    /\ UNCHANGED <<tariffs, nextTariffId>>
    /\ UNCHANGED NotTariffsNorReqs

\* POST or PATCH /api/consumption: 400 for NO_ACTIVE, 409 for MANY_ACTIVE, or
\* the rest of the handler with the tariff found.
TariffLookupDoneStep(s) ==
    /\ reqs[s].pc = "looked"
    /\ reqs' = [reqs EXCEPT ![s] = TariffIdle]
    /\ UNCHANGED <<tariffs, nextTariffId>>
    /\ UNCHANGED NotTariffsNorReqs

\* Bodies with and without a new valid_to, is_active left out or a boolean.
TariffSwitchBodies ==
    [ tariff_name   : {<< "day" >>},
      price_per_kwh : {<< 43200 >>},
      valid_from    : {<< 20250101 >>},
      valid_to      : {<<>>, << 20251231 >>},
      is_active     : {<<>>, << "true" >>, << "false" >>} ]

TariffConcBodiesOf(u) == IF u = 1 THEN TariffSwitchBodies ELSE TariffPlainBodies

TariffConcInit ==
    /\ tariffs = {} /\ nextTariffId = 1
    /\ reqs = [s \in Slots |-> TariffIdle]
    /\ today = 20250615
    /\ limits = {} /\ nextLimitId = 1
    /\ users = <<>> /\ auditLog = <<>>
    /\ calc = NoCalc
    /\ appliances = {} /\ records = {} /\ nextRecordId = 1
    /\ progress = NoProgress
    /\ device = NoDevice

TariffConcNext ==
    \/ \E s \in Slots, u \in UserIds :
          \E body \in TariffConcBodiesOf(u) : TariffPostCheckStep(s, u, body)
    \/ \E s \in Slots : TariffPostTxStep(s)
    \/ \E s \in Slots, u \in UserIds, id \in TariffIds :
          \E body \in TariffConcBodiesOf(u) : TariffPatchFindStep(s, u, id, body)
    \/ \E s \in Slots : TariffPatchTxStep(s)
    \/ \E s \in Slots, u \in UserIds, id \in TariffIds : TariffActivateFindStep(s, u, id)
    \/ \E s \in Slots : TariffActivateTxStep(s)
    \/ \E s \in Slots, u \in UserIds, id \in TariffIds : TariffDeleteFindStep(s, u, id)
    \/ \E s \in Slots : TariffDestroyStep(s)
    \/ \E s \in Slots, u \in UserIds : TariffLookupStep(s, u)
    \/ \E s \in Slots : TariffLookupDoneStep(s)

SpecTariffConc == TariffConcInit /\ [][TariffConcNext]_vars

\* C4: when create, patch and activate requests of one user on different
\* tariffs run together, then however their row reads and their transactions
\* interleave, the lookup of the user's active tariff never finds more than
\* one.
C4_NeverManyActive ==
    \A u \in UserIds : getActiveTariffStrict(tariffs, u).code # "MANY_ACTIVE"

\* A request in flight that makes its tariff the active one: activate, patch
\* with is_active: true, or create unless is_active is false.
IsSwitch(r) ==
    \/ r.pc = "activateTx"
    \/ r.pc = "patchTx" /\ r.body[1].is_active = << "true" >>
    \/ r.pc = "postTx" /\ r.body[1].is_active # << "false" >>

\* The tariff a switch makes active.
SwitchTarget(r) == IF r.pc = "postTx" THEN nextTariffId ELSE r.row[1].id

\* No other request has written the switch's tariff since the switch read it.
SwitchUndisturbed(r) == r.pc = "postTx" \/ r.row[1] \in tariffs

\* C5: while a user with exactly one active tariff A switches the active
\* tariff to B (activate, or create or patch with is_active = true), a lookup
\* of the active tariff finds exactly one: the switch's read leaves the table
\* as it is, its transaction takes the table from "only A active" to "only B
\* active" in one step, and a lookup made on a table with one active tariff
\* answers with that tariff, never with NO_ACTIVE or MANY_ACTIVE.
C5_SwitchSeenWhole ==
    [][\A s \in Slots :
          /\ (reqs[s].pc = "idle" /\ IsSwitch(reqs'[s])) => tariffs' = tariffs
          /\ ( /\ IsSwitch(reqs[s])
               /\ SwitchUndisturbed(reqs[s])
               /\ reqs'[s].pc = "idle"
               /\ Cardinality(ActiveTariffs(tariffs, reqs[s].user_id)) = 1 )
             => /\ Cardinality(ActiveTariffs(tariffs', reqs[s].user_id)) = 1
                /\ \A r \in ActiveTariffs(tariffs', reqs[s].user_id) :
                      r.id = SwitchTarget(reqs[s])
          /\ ( /\ reqs[s].pc = "idle"
               /\ reqs'[s].pc = "looked"
               /\ Cardinality(ActiveTariffs(tariffs, reqs'[s].user_id)) = 1 )
             => /\ reqs'[s].seen[1].code = "OK"
                /\ \A r \in ActiveTariffs(tariffs, reqs'[s].user_id) :
                      reqs'[s].seen[1].ids = << r.id >>]_vars

\* A lookup has found tariff 1 while a switch of the same user to another
\* tariff has read its row and not yet committed.
C5_Witness ==
    \E s \in Slots, t \in Slots :
        /\ reqs[s].pc = "looked"
        /\ reqs[s].seen[1] = [code |-> "OK", ids |-> << 1 >>]
        /\ IsSwitch(reqs[t])
        /\ reqs[t].pc = "activateTx"
        /\ SwitchUndisturbed(reqs[t])
        /\ reqs[t].user_id = reqs[s].user_id
        /\ SwitchTarget(reqs[t]) = 2

-----------------------------------------------------------------------------
(* middleware/auth and routes/admin: role and block changes, requests in     *)
(* flight together. A step is one query together with the code up to the     *)
(* next query or the response; an answered request keeps its status until    *)
(* the connection is released.                                               *)

ROLES == {"user", "admin"}

\* The accounts of the users table; each holds a valid token.
AccountIds == {1, 2}

\* The :id of a request: 0 is not a valid id, 3 is the id of no account.
TargetIds == {0, 1, 2, 3}

\* nextRole is the role asked for ("" in a block request), parsed the value of
\* parseBool(is_blocked) (<<>> in a role request, or when it is null).
AdminIdle == [pc |-> "idle", caller |-> 0, kind |-> "", target |-> 0,
              nextRole |-> "", parsed |-> <<>>, user |-> <<>>, status |-> 0]

\* A boolean as JSON.stringify writes it.
BoolStr(b) == IF b THEN "true" ELSE "false"

\* The request answered with status; the instance read is dropped.
Answered(r, status) == [r EXCEPT !.pc = "done", !.status = status, !.user = <<>>]

\* Mutant: blocked admins are counted too.
countActiveAdmins_AnyAdmin(table) ==
    Cardinality({ id \in DOMAIN table : table[id].role = "admin" })

\* User.count({ where: { role: 'admin', is_blocked: false } })
countActiveAdmins(table) ==
    Cardinality({ id \in DOMAIN table :
                    table[id].role = "admin" /\ ~table[id].is_blocked })

\* User.findByPk(id): <<>> when there is no such row.
findByPk(table, id) ==
    IF id \in DOMAIN table
    THEN << [id |-> id, role |-> table[id].role, is_blocked |-> table[id].is_blocked] >>
    ELSE <<>>

NotUsersNorReqs ==
    <<today, tariffs, nextTariffId, limits, nextLimitId, calc, consumptionVars>>

\* Requests between auth and their audit record.
AdminInFlight == Cardinality({ t \in DOMAIN reqs : reqs[t].pc \notin {"idle", "done"} })

\* auth and requireAdmin for the bearer of caller's token.
AuthStep(s, caller) ==
    /\ reqs[s].pc = "idle"
    /\ Len(auditLog) + AdminInFlight < MaxAudit
    /\ \E r \in {[AdminIdle EXCEPT !.caller = caller]} :
        \E found \in {findByPk(users, caller)} :
          reqs' = [reqs EXCEPT ![s] =
                      IF found = <<>> THEN Answered(r, 401)
                      ELSE IF found[1].is_blocked THEN Answered(r, 403)
                      ELSE IF found[1].role # "admin" THEN Answered(r, 403)
                      ELSE [r EXCEPT !.pc = "handler"]]
    /\ UNCHANGED <<users, auditLog>>
    /\ UNCHANGED NotUsersNorReqs

\* Mutant: the handler has no check of the caller's own id.
RoleFindStep_NoSelfCheck(s, id, role) ==
    /\ reqs[s].pc = "handler"
    /\ \E r \in {[reqs[s] EXCEPT !.kind = "role", !.target = id, !.nextRole = role]} :
        \E found \in {findByPk(users, id)} :
          reqs' = [reqs EXCEPT ![s] =
                      IF id <= 0 THEN Answered(r, 400)
                      ELSE IF role \notin ROLES THEN Answered(r, 400)
                      ELSE IF found = <<>> THEN Answered(r, 404)
                      ELSE IF found[1].role = "admin" /\ role # "admin"
                           THEN [r EXCEPT !.pc = "count", !.user = found]
                      ELSE [r EXCEPT !.pc = "update", !.user = found]]
    /\ UNCHANGED <<users, auditLog>>
    /\ UNCHANGED NotUsersNorReqs

\* PATCH /api/admin/users/:id/role up to the answer of User.findByPk.
RoleFindStep(s, id, role) ==
    /\ reqs[s].pc = "handler"
    /\ \E r \in {[reqs[s] EXCEPT !.kind = "role", !.target = id, !.nextRole = role]} :
        \E found \in {findByPk(users, id)} :
          reqs' = [reqs EXCEPT ![s] =
                      IF id <= 0 THEN Answered(r, 400)
                      ELSE IF role \notin ROLES THEN Answered(r, 400)
                      ELSE IF id = r.caller /\ role # "admin" THEN Answered(r, 400)
                      ELSE IF found = <<>> THEN Answered(r, 404)
                      ELSE IF found[1].role = "admin" /\ role # "admin"
                           THEN [r EXCEPT !.pc = "count", !.user = found]
                      ELSE [r EXCEPT !.pc = "update", !.user = found]]
    /\ UNCHANGED <<users, auditLog>>
    /\ UNCHANGED NotUsersNorReqs

\* PATCH /api/admin/users/:id/block up to the answer of User.findByPk.
BlockFindStep(s, id, is_blocked) ==
    /\ reqs[s].pc = "handler"
    /\ \E r \in {[reqs[s] EXCEPT !.kind = "block", !.target = id,
                                 !.parsed = parseBool(is_blocked)]} :
        \E found \in {findByPk(users, id)} :
          reqs' = [reqs EXCEPT ![s] =
                      IF id <= 0 THEN Answered(r, 400)
                      ELSE IF r.parsed = <<>> THEN Answered(r, 400)
                      ELSE IF r.parsed[1] /\ id = r.caller THEN Answered(r, 400)
                      ELSE IF found = <<>> THEN Answered(r, 404)
                      ELSE IF r.parsed[1] /\ found[1].role = "admin"
                           THEN [r EXCEPT !.pc = "count", !.user = found]
                      ELSE [r EXCEPT !.pc = "update", !.user = found]]
    /\ UNCHANGED <<users, auditLog>>
    /\ UNCHANGED NotUsersNorReqs

\* countActiveAdmins() and the 409 of either handler.
CountStep(s) ==
    /\ reqs[s].pc = "count"
    /\ reqs' = [reqs EXCEPT ![s] =
                   IF countActiveAdmins(users) <= 1 THEN Answered(reqs[s], 409)
                   ELSE [reqs[s] EXCEPT !.pc = "update"]]
    /\ UNCHANGED <<users, auditLog>>
    /\ UNCHANGED NotUsersNorReqs

\* user.update({ role }) or user.update({ is_blocked }): an UPDATE is sent
\* when the value differs from the one of the instance read.
UpdateStep(s) ==
    /\ reqs[s].pc = "update"
    /\ users' =
         IF reqs[s].kind = "role" THEN
             IF reqs[s].user[1].role = reqs[s].nextRole THEN users
             ELSE [users EXCEPT ![reqs[s].target].role = reqs[s].nextRole]
         ELSE
             IF reqs[s].user[1].is_blocked = reqs[s].parsed[1] THEN users
             ELSE [users EXCEPT ![reqs[s].target].is_blocked = reqs[s].parsed[1]]
    /\ reqs' = [reqs EXCEPT ![s].pc = "audit"]
    /\ UNCHANGED auditLog
    /\ UNCHANGED NotUsersNorReqs

\* The record writeAudit creates for a request; from is the value of the
\* instance read.
AuditRecord(r) ==
    [admin_id |-> r.caller,
     action |-> IF r.kind = "role" THEN "USER_ROLE_CHANGE"
                ELSE IF r.parsed[1] THEN "USER_BLOCK" ELSE "USER_UNBLOCK",
     target_user_id |-> r.target,
     from |-> IF r.kind = "role" THEN r.user[1].role
              ELSE BoolStr(r.user[1].is_blocked),
     to |-> IF r.kind = "role" THEN r.nextRole ELSE BoolStr(r.parsed[1])]

\* writeAudit and the 200. AuditLog.create resolves, or it rejects and the
\* catch of writeAudit logs the error to the console: the handler goes on to
\* res.json(user) either way. A request answered without its record stays in
\* its slot as "unlogged", so that it keeps its place in the budget of
\* MaxAudit requests.
AuditStep(s) ==
    /\ reqs[s].pc = "audit"
    /\ \E created \in BOOLEAN :
          /\ auditLog' = IF created THEN Append(auditLog, AuditRecord(reqs[s]))
                         ELSE auditLog
          /\ reqs' = [reqs EXCEPT ![s] =
                         IF created THEN Answered(reqs[s], 200)
                         ELSE [Answered(reqs[s], 200) EXCEPT !.pc = "unlogged"]]
    /\ UNCHANGED users
    /\ UNCHANGED NotUsersNorReqs

\* The response has been read; the connection takes the next request.
ReleaseStep(s) ==
    /\ reqs[s].pc = "done"
    /\ reqs' = [reqs EXCEPT ![s] = AdminIdle]
    /\ UNCHANGED <<users, auditLog>>
    /\ UNCHANGED NotUsersNorReqs

\* The values sent as role and as is_blocked.
RoleValues == {"user", "admin", "root"}

BlockValues == {"true", "false", "num1", "str:yes"}

\* The users table holds at least one admin that is not blocked: account 1;
\* account 2 is a second admin or a user, blocked or not.
AdminConcInit ==
    /\ users \in [AccountIds -> [role : ROLES, is_blocked : BOOLEAN]]
    /\ users[1] = [role |-> "admin", is_blocked |-> FALSE]
    /\ auditLog = <<>>
    /\ reqs = [s \in Slots |-> AdminIdle]
    /\ today = 20250615
    /\ tariffs = {} /\ nextTariffId = 1
    /\ limits = {} /\ nextLimitId = 1
    /\ calc = NoCalc
    /\ appliances = {} /\ records = {} /\ nextRecordId = 1
    /\ progress = NoProgress
    /\ device = NoDevice

AdminNext ==
    \/ \E s \in Slots, caller \in AccountIds : AuthStep(s, caller)
    \/ \E s \in Slots, id \in TargetIds, role \in RoleValues : RoleFindStep(s, id, role)
    \/ \E s \in Slots, id \in TargetIds, v \in BlockValues : BlockFindStep(s, id, v)
    \/ \E s \in Slots : CountStep(s)
    \/ \E s \in Slots : UpdateStep(s)
    \/ \E s \in Slots : AuditStep(s)
    \/ \E s \in Slots : ReleaseStep(s)

SpecAdminConc == AdminConcInit /\ [][AdminNext]_vars

\* C6: from a users table with an admin that is not blocked, after any role
\* and block requests, those of different admins in flight together included,
\* some account has role = admin and is_blocked = false.
C6_ActiveAdminRemains ==
    \E id \in DOMAIN users : users[id].role = "admin" /\ ~users[id].is_blocked

\* The account is the only admin that is not blocked.
SoleActiveAdmin(id) ==
    /\ id \in DOMAIN users
    /\ users[id].role = "admin" /\ ~users[id].is_blocked
    /\ \A j \in DOMAIN users \ {id} :
          ~(users[j].role = "admin" /\ ~users[j].is_blocked)

AnsweredNow(s) ==
    /\ reqs[s].pc \notin {"idle", "done", "unlogged"}
    /\ reqs'[s].pc \in {"done", "unlogged"}

\* C21: a role or block request is answered with 200 by a step that leaves in
\* audit_logs exactly one new record, appended for it, holding the acting
\* admin, the target and the values before and after; a request answered with
\* another status appends none; every step leaves the records already written
\* as they are.
C21_AuditPerSuccess ==
    [][/\ \A s \in DOMAIN reqs :
             AnsweredNow(s) =>
                 IF reqs'[s].status = 200
                 THEN auditLog' = Append(auditLog, AuditRecord(reqs[s]))
                 ELSE auditLog' = auditLog
       /\ Len(auditLog') >= Len(auditLog)
       /\ SubSeq(auditLog', 1, Len(auditLog)) = auditLog
       /\ (auditLog' # auditLog) => \E s \in DOMAIN reqs : AnsweredNow(s)]_vars

\* The request of slot s asks to take the admin role from its caller or to
\* block its caller.
OnOwnAccount(r) ==
    /\ r.target = r.caller
    /\ \/ r.kind = "role" /\ r.nextRole # "admin"
       \/ r.kind = "block" /\ r.parsed = << TRUE >>

\* C22: a request of an admin to set the own role to a value other than admin,
\* or to block the own account, is answered with 400 by the first step of the
\* handler, which changes neither the users table nor audit_logs; the request
\* never comes to an update, whatever the other accounts are.
C22_OwnAccountRefused ==
    [][\A s \in DOMAIN reqs :
          /\ (reqs[s].pc = "handler" /\ reqs'[s] # reqs[s] /\ OnOwnAccount(reqs'[s]))
                => ( /\ reqs'[s].pc = "done"
                     /\ reqs'[s].status = 400
                     /\ users' = users
                     /\ auditLog' = auditLog )
          /\ (reqs'[s].pc \in {"count", "update", "audit", "unlogged"})
                => ~OnOwnAccount(reqs'[s])
          /\ (reqs'[s].pc = "done" /\ OnOwnAccount(reqs'[s]))
                => reqs'[s].status = 400]_vars

\* The first admin has asked for the role user for itself and has been answered
\* with 400 while the second account is an admin that is not blocked; the first
\* is still an admin and not blocked.
C22_Witness ==
    \E s \in DOMAIN reqs :
        /\ reqs[s].pc = "done" /\ reqs[s].status = 400
        /\ reqs[s].kind = "role" /\ reqs[s].nextRole = "user"
        /\ reqs[s].caller = 1 /\ reqs[s].target = 1
        /\ users[1] = [role |-> "admin", is_blocked |-> FALSE]
        /\ users[2] = [role |-> "admin", is_blocked |-> FALSE]

-----------------------------------------------------------------------------
(* routes/consumption: helpers. A number of a request body is given in      *)
(* units of 0.0001; consumption_kwh and estimated_power of a row are in      *)
(* units of 0.001 (DECIMAL(10, 3)), prices and costs in units of 0.0001      *)
(* (DECIMAL(10, 4), DECIMAL(12, 4)). A null appliance_id is 0 and null notes *)
(* are "".                                                                   *)

\* Mutant: the digits after the last one kept are cut off.
toFixed_Cut(num, den) == { num \div den }

\* n.toFixed(digits), in units of 10^-digits, for the number n >= 0 that is
\* num / den in those units: the multiple nearest to n. When n lies half-way
\* in decimal, the double that stands for it lies on one side or the other
\* (1.0005.toFixed(3) is "1.000", 2.0005.toFixed(3) is "2.001"; 0.010 * 0.0150
\* gives "0.0001"), so either neighbour is a possible result.
toFixed(num, den) ==
    IF 2 * (num % den) < den THEN { num \div den }
    ELSE IF 2 * (num % den) > den THEN { num \div den + 1 }
    ELSE { num \div den, num \div den + 1 }

\* The result of computeKwh: an error, or the kWh as the fraction n / d.
KwhError == [error |-> TRUE, n |-> 0, d |-> 1]

\* Mutant: a consumption_kwh below zero is taken as it is.
computeKwh_Signed(consumption_kwh, usage_hours, appliance) ==
    IF consumption_kwh # <<>> THEN
        IF consumption_kwh[1] = 0 THEN KwhError
        ELSE [error |-> FALSE, n |-> consumption_kwh[1], d |-> 10000]
    ELSE IF usage_hours # <<>> THEN
        IF usage_hours[1] <= 0 THEN KwhError
        ELSE IF appliance = <<>> THEN KwhError
        ELSE IF appliance[1].estimated_power <= 0 THEN KwhError
        ELSE [error |-> FALSE, n |-> appliance[1].estimated_power * usage_hours[1],
              d |-> 10000000]
    ELSE KwhError

\* appliance is <<>> for null. Number(null) is 0, so an appliance without
\* estimated_power fails the check of power.
computeKwh(consumption_kwh, usage_hours, appliance) ==
    IF consumption_kwh # <<>> THEN
        IF consumption_kwh[1] <= 0 THEN KwhError
        ELSE [error |-> FALSE, n |-> consumption_kwh[1], d |-> 10000]
    ELSE IF usage_hours # <<>> THEN
        IF usage_hours[1] <= 0 THEN KwhError
        ELSE IF appliance = <<>> THEN KwhError
        ELSE IF appliance[1].estimated_power <= 0 THEN KwhError
        ELSE [error |-> FALSE, n |-> appliance[1].estimated_power * usage_hours[1],
              d |-> 10000000]
    ELSE KwhError

\* Appliance.findOne({ where: { id, user_id } }): <<>> when there is no row.
ApplianceOf(table, id, userId) ==
    IF \E a \in table : a.id = id /\ a.user_id = userId
    THEN << CHOOSE a \in table : a.id = id /\ a.user_id = userId >>
    ELSE <<>>

\* ConsumptionRecord.findOne({ where: { id, user_id } })
RecordOf(table, id, userId) == { r \in table : r.id = id /\ r.user_id = userId }

\* tCheck.tariff.price_per_kwh
ActivePrice(table, tCheck) ==
    (CHOOSE t \in table : t.id = tCheck.ids[1]).price_per_kwh

\* kwhStr, priceStr and costStr: the values decimalString may give for a kWh
\* of n / d (d is 1000 or more) and a price.
PricedValues(kwh, price) ==
    UNION { UNION { { [consumption_kwh |-> kwhStr, applied_price_per_kwh |-> priceStr,
                       cost |-> costStr]
                      : costStr \in toFixed(kwhStr * priceStr, 1000) }
                    : priceStr \in toFixed(price, 1) }
            : kwhStr \in toFixed(kwh.n, kwh.d \div 1000) }

-----------------------------------------------------------------------------
(* routes/consumption: the handlers, one request at a time *)

\* What a consumption handler leaves behind: the table, the AUTO_INCREMENT
\* counter and the response: its status, the id of the row in its body (0
\* when it carries no row) and active_tariff_ids (<<>> when absent).
ConsumptionOutcome(table, nextId, status, id, ids) ==
    [records |-> table, nextRecordId |-> nextId, status |-> status, id |-> id,
     active_tariff_ids |-> ids]

\* router.post('/') from the appliance found on.
ConsumptionPostWrite(table, nextId, u, body, price, appliance) ==
    UNION { IF kwhResult.error THEN { ConsumptionOutcome(table, nextId, 400, 0, <<>>) }
            ELSE IF price < 0 THEN { ConsumptionOutcome(table, nextId, 400, 0, <<>>) }
            ELSE { ConsumptionOutcome(
                       table \cup { [id |-> nextId, user_id |-> u,
                                     appliance_id |-> IF appliance = <<>> THEN 0
                                                      ELSE appliance[1].id,
                                     consumption_kwh |-> v.consumption_kwh,
                                     applied_price_per_kwh |-> v.applied_price_per_kwh,
                                     cost |-> v.cost,
                                     record_date |-> body.record_date[1],
                                     notes |-> FieldOr(body.notes, "")] },
                       nextId + 1, 201, nextId, <<>>)
                   : v \in PricedValues(kwhResult, price) }
            : kwhResult \in { computeKwh(body.consumption_kwh, body.usage_hours,
                                         appliance) } }

\* router.post('/') from the answer of getActiveTariffStrict on.
ConsumptionPostFinish(table, nextId, tars, apps, u, body, tCheck) ==
    IF tCheck.code = "NO_ACTIVE" THEN { ConsumptionOutcome(table, nextId, 400, 0, <<>>) }
    ELSE IF tCheck.code # "OK"
         THEN { ConsumptionOutcome(table, nextId, 409, 0, tCheck.ids) }
    ELSE IF body.appliance_id \in { <<>>, << 0 >> }
         THEN ConsumptionPostWrite(table, nextId, u, body,
                                   ActivePrice(tars, tCheck), <<>>)
    ELSE UNION { IF appliance = <<>>
                 THEN { ConsumptionOutcome(table, nextId, 404, 0, <<>>) }
                 ELSE ConsumptionPostWrite(table, nextId, u, body,
                                           ActivePrice(tars, tCheck), appliance)
                 : appliance \in { ApplianceOf(apps, body.appliance_id[1], u) } }

\* POST /api/consumption
ConsumptionPostOutcomes(table, nextId, tars, apps, u, body) ==
    IF body.consumption_kwh # <<>> /\ body.usage_hours # <<>>
    THEN { ConsumptionOutcome(table, nextId, 400, 0, <<>>) }
    ELSE IF ~isValidISODate(FieldOr(body.record_date, 0))
         THEN { ConsumptionOutcome(table, nextId, 400, 0, <<>>) }
    ELSE UNION { ConsumptionPostFinish(table, nextId, tars, apps, u, body, tCheck)
                 : tCheck \in { getActiveTariffStrict(tars, u) } }

\* Mutant: the price of the record is kept when the body brings no new kWh.
ConsumptionPatchWrite_KeepPrice(table, nextId, row, body, nextDate, price, appliance, nextApplianceId) ==
    UNION { IF kwhResult.error THEN { ConsumptionOutcome(table, nextId, 400, 0, <<>>) }
            ELSE IF kwhResult.n <= 0
                 THEN { ConsumptionOutcome(table, nextId, 400, 0, <<>>) }
            ELSE IF price < 0 THEN { ConsumptionOutcome(table, nextId, 400, 0, <<>>) }
            ELSE { ConsumptionOutcome(
                       InstanceUpdate(table, row,
                           [appliance_id |-> nextApplianceId,
                            consumption_kwh |-> v.consumption_kwh,
                            applied_price_per_kwh |->
                                IF body.consumption_kwh = <<>> /\ body.usage_hours = <<>>
                                THEN row.applied_price_per_kwh
                                ELSE v.applied_price_per_kwh,
                            cost |-> IF body.consumption_kwh = <<>> /\ body.usage_hours = <<>>
                                     THEN row.cost ELSE v.cost,
                            record_date |-> nextDate,
                            notes |-> FieldOr(body.notes, row.notes)]),
                       nextId, 200, row.id, <<>>)
                   : v \in PricedValues(kwhResult, price) }
            : kwhResult \in { IF body.consumption_kwh # <<>>
                              THEN computeKwh(body.consumption_kwh, <<>>, <<>>)
                              ELSE IF body.usage_hours # <<>>
                              THEN computeKwh(<<>>, body.usage_hours, appliance)
                              ELSE [error |-> FALSE, n |-> row.consumption_kwh,
                                    d |-> 1000] } }

\* router.patch('/:id') from the appliance resolved on; nextApplianceId is the
\* appliance_id to store.
ConsumptionPatchWrite(table, nextId, row, body, nextDate, price, appliance, nextApplianceId) ==
    UNION { IF kwhResult.error THEN { ConsumptionOutcome(table, nextId, 400, 0, <<>>) }
            ELSE IF kwhResult.n <= 0
                 THEN { ConsumptionOutcome(table, nextId, 400, 0, <<>>) }
            ELSE IF price < 0 THEN { ConsumptionOutcome(table, nextId, 400, 0, <<>>) }
            ELSE { ConsumptionOutcome(
                       InstanceUpdate(table, row,
                           [appliance_id |-> nextApplianceId,
                            consumption_kwh |-> v.consumption_kwh,
                            applied_price_per_kwh |-> v.applied_price_per_kwh,
                            cost |-> v.cost,
                            record_date |-> nextDate,
                            notes |-> FieldOr(body.notes, row.notes)]),
                       nextId, 200, row.id, <<>>)
                   : v \in PricedValues(kwhResult, price) }
            : kwhResult \in { IF body.consumption_kwh # <<>>
                              THEN computeKwh(body.consumption_kwh, <<>>, <<>>)
                              ELSE IF body.usage_hours # <<>>
                              THEN computeKwh(<<>>, body.usage_hours, appliance)
                              ELSE [error |-> FALSE, n |-> row.consumption_kwh,
                                    d |-> 1000] } }

\* router.patch('/:id') from the answer of getActiveTariffStrict on.
ConsumptionPatchFinish(table, nextId, tars, apps, row, body, nextDate, tCheck) ==
    IF tCheck.code = "NO_ACTIVE" THEN { ConsumptionOutcome(table, nextId, 400, 0, <<>>) }
    ELSE IF tCheck.code # "OK"
         THEN { ConsumptionOutcome(table, nextId, 409, 0, tCheck.ids) }
    ELSE IF body.appliance_id = <<>>
         THEN ConsumptionPatchWrite(table, nextId, row, body, nextDate,
                  ActivePrice(tars, tCheck),
                  IF row.appliance_id # 0
                  THEN ApplianceOf(apps, row.appliance_id, row.user_id) ELSE <<>>,
                  row.appliance_id)
    ELSE IF body.appliance_id = << 0 >>
         THEN ConsumptionPatchWrite(table, nextId, row, body, nextDate,
                  ActivePrice(tars, tCheck), <<>>, 0)
    ELSE UNION { IF appliance = <<>>
                 THEN { ConsumptionOutcome(table, nextId, 404, 0, <<>>) }
                 ELSE ConsumptionPatchWrite(table, nextId, row, body, nextDate,
                          ActivePrice(tars, tCheck), appliance, appliance[1].id)
                 : appliance \in { ApplianceOf(apps, body.appliance_id[1],
                                               row.user_id) } }

\* PATCH /api/consumption/:id
ConsumptionPatchOutcomes(table, nextId, tars, apps, u, id, body) ==
    IF RecordOf(table, id, u) = {} THEN { ConsumptionOutcome(table, nextId, 404, 0, <<>>) }
    ELSE UNION {
        IF body.consumption_kwh # <<>> /\ body.usage_hours # <<>>
        THEN { ConsumptionOutcome(table, nextId, 400, 0, <<>>) }
        ELSE IF ~isValidISODate(FieldOr(body.record_date, row.record_date))
             THEN { ConsumptionOutcome(table, nextId, 400, 0, <<>>) }
        ELSE UNION { ConsumptionPatchFinish(table, nextId, tars, apps, row, body,
                         FieldOr(body.record_date, row.record_date), tCheck)
                     : tCheck \in { getActiveTariffStrict(tars, u) } }
        : row \in RecordOf(table, id, u) }

\* DELETE /api/consumption/:id
ConsumptionDeleteOutcomes(table, nextId, u, id) ==
    IF RecordOf(table, id, u) = {} THEN { ConsumptionOutcome(table, nextId, 404, 0, <<>>) }
    ELSE { ConsumptionOutcome({ r \in table : r.id # id }, nextId, 204, 0, <<>>) }

NotRecords == <<today, tariffs, nextTariffId, limits, nextLimitId, users, auditLog,
                reqs, calc, appliances, progress, device>>

\* A handler runs to its response; rows are created while the counter allows.
ConsumptionApply(o) ==
    /\ o.nextRecordId <= MaxRecordId + 1
    /\ records' = o.records
    /\ nextRecordId' = o.nextRecordId
    /\ UNCHANGED NotRecords

ConsumptionPost(u, body) ==
    \E o \in ConsumptionPostOutcomes(records, nextRecordId, tariffs, appliances, u, body) :
        ConsumptionApply(o)

ConsumptionPatch(u, id, body) ==
    \E o \in ConsumptionPatchOutcomes(records, nextRecordId, tariffs, appliances,
                                      u, id, body) :
        ConsumptionApply(o)

ConsumptionDelete(u, id) ==
    \E o \in ConsumptionDeleteOutcomes(records, nextRecordId, u, id) : ConsumptionApply(o)

\* DELETE /api/appliances/:id
ApplianceDelete(u, id) ==
    /\ ApplianceOf(appliances, id, u) # <<>>
    /\ appliances' = { a \in appliances : a.id # id }
    /\ UNCHANGED <<today, tariffs, nextTariffId, limits, nextLimitId, users,
                   auditLog, reqs, calc, records, nextRecordId, progress, device>>

ConsumptionBody(appliance_id, consumption_kwh, usage_hours, record_date, notes) ==
    [ appliance_id |-> appliance_id, consumption_kwh |-> consumption_kwh,
      usage_hours |-> usage_hours, record_date |-> record_date, notes |-> notes ]

\* The request bodies sent to the consumption handlers by the first account:
\* a kWh of 3.5, of 1.0005 (half-way between 1.000 and 1.001), of 0.01 (its
\* cost at the price 0.0150 lies half-way) or of 0; 2.0005 hours of every
\* appliance, of none, and of null; both kWh and hours; neither; a date that
\* does not exist.
ConsumptionBodies ==
    { ConsumptionBody(<<>>, << k >>, <<>>, << 20250610 >>, <<>>)
        : k \in { 35000, 10005, 100, 0 } }
    \cup { ConsumptionBody(a, <<>>, << 20005 >>, << 20250610 >>, <<>>)
           : a \in { <<>>, << 0 >>, << 1 >>, << 2 >>, << 3 >> } }
    \cup { ConsumptionBody(<< 1 >>, << 35000 >>, << 20005 >>, << 20250610 >>, <<>>),
           ConsumptionBody(<<>>, <<>>, <<>>, <<>>, <<>>),
           ConsumptionBody(<<>>, << 35000 >>, <<>>, << 20250230 >>, <<>>) }

\* The second account sends one body.
ConsumptionPlainBodies ==
    { ConsumptionBody(<<>>, << 35000 >>, <<>>, << 20250610 >>, <<>>) }

ConsumptionBodiesOf(u) == IF u = 1 THEN ConsumptionBodies ELSE ConsumptionPlainBodies

\* The bodies sent to the tariff handlers: a price of 4.32 or of 0.0150,
\* is_active left out or the number 1.
TariffPriceBodies ==
    [ tariff_name   : {<< "day" >>},
      price_per_kwh : {<< 43200 >>, << 150 >>},
      valid_from    : {<< 20250101 >>},
      valid_to      : {<<>>},
      is_active     : {<<>>, << "num1" >>} ]

RecordIds == 1..MaxRecordId

\* The first account owns a 1.5 kW appliance and one without estimated_power,
\* the second account a 2 kW appliance; there are no tariffs and no records.
ConsumptionInit ==
    /\ appliances = { [id |-> 1, user_id |-> 1, estimated_power |-> 1500],
                      [id |-> 2, user_id |-> 1, estimated_power |-> 0],
                      [id |-> 3, user_id |-> 2, estimated_power |-> 2000] }
    /\ records = {} /\ nextRecordId = 1
    /\ progress = NoProgress
    /\ device = NoDevice
    /\ tariffs = {} /\ nextTariffId = 1
    /\ today = 20250615
    /\ limits = {} /\ nextLimitId = 1
    /\ users = <<>> /\ auditLog = <<>>
    /\ reqs = <<>>
    /\ calc = NoCalc

ConsumptionNext ==
    \/ \E u \in UserIds : \E body \in ConsumptionBodiesOf(u) : ConsumptionPost(u, body)
    \/ \E u \in UserIds, id \in RecordIds :
          \E body \in ConsumptionBodiesOf(u) : ConsumptionPatch(u, id, body)
    \/ \E u \in UserIds, id \in RecordIds : ConsumptionDelete(u, id)
    \/ ApplianceDelete(1, 1)
    \/ \E body \in TariffPriceBodies : TariffPost(1, body)
    \/ \E id \in TariffIds : \E body \in TariffPriceBodies : TariffPatch(1, id, body)
    \/ \E id \in TariffIds : TariffActivate(1, id)
    \/ \E id \in TariffIds : TariffDelete(1, id)

SpecConsumption == ConsumptionInit /\ [][ConsumptionNext]_vars

\* m is a multiple nearest to num / den.
IsNearest(m, num, den) ==
    /\ 2 * (m * den - num) <= den
    /\ 2 * (num - m * den) <= den

\* The row of an outcome's response.
Written(o) == CHOOSE r \in o.records : r.id = o.id

\* The request has been answered with a row.
Succeeded(o) == o.status \in {200, 201}

\* The kWh the body asks for is num / den, in units of 0.001: its
\* consumption_kwh, or its usage_hours times the estimated_power of some
\* appliance of the user, or else the kWh of the record being updated.
AsksKwh(u, body, row, num, den) ==
    IF body.consumption_kwh # <<>> THEN num = body.consumption_kwh[1] /\ den = 10
    ELSE IF body.usage_hours # <<>>
    THEN /\ den = 10000
         /\ \E a \in appliances :
               a.user_id = u /\ num = a.estimated_power * body.usage_hours[1]
    ELSE row # <<>> /\ num = row[1].consumption_kwh /\ den = 1

\* The row a request has written: its price is the price of the user's one
\* active tariff, its kWh is nearest to the kWh asked for and its cost is
\* nearest to kWh times price.
WrittenRight(u, body, row, r) ==
    /\ Cardinality(ActiveTariffs(tariffs, u)) = 1
    /\ \A t \in ActiveTariffs(tariffs, u) : r.applied_price_per_kwh = t.price_per_kwh
    /\ \E num \in { r.consumption_kwh * 10 - 5, r.consumption_kwh * 10 + 5,
                    r.consumption_kwh * 10000 - 5000, r.consumption_kwh * 10000 + 5000,
                    r.consumption_kwh } \cup
                  { a.estimated_power * FieldOr(body.usage_hours, 0) : a \in appliances }
                  \cup { FieldOr(body.consumption_kwh, 0) } :
          \E den \in {1, 10, 10000} :
              AsksKwh(u, body, row, num, den) /\ IsNearest(r.consumption_kwh, num, den)
    /\ IsNearest(r.cost, r.consumption_kwh * r.applied_price_per_kwh, 1000)
    /\ ( /\ r.consumption_kwh = 3500
         /\ r.applied_price_per_kwh = 43200 ) => r.cost = 151200

\* C15: every record written by POST or PATCH /api/consumption stores its kWh
\* rounded to 3 decimals, as applied_price_per_kwh the price of the user's
\* active tariff at that moment (4 decimals) and as cost kWh times that price
\* rounded to 4 decimals; 3.5 kWh at the price 4.32 stores the cost 15.1200.
\* Rounded means a nearest value: a decimal half-way case may go either way.
C15_StoredRounded ==
    /\ \A r \in records :
          IsNearest(r.cost, r.consumption_kwh * r.applied_price_per_kwh, 1000)
    /\ \A u \in UserIds : \A body \in ConsumptionBodiesOf(u) :
          \A o \in ConsumptionPostOutcomes(records, nextRecordId, tariffs,
                                           appliances, u, body) :
              Succeeded(o) => WrittenRight(u, body, <<>>, Written(o))
    /\ \A row \in records : \A body \in ConsumptionBodiesOf(row.user_id) :
          \A o \in ConsumptionPatchOutcomes(records, nextRecordId, tariffs,
                                            appliances, row.user_id, row.id, body) :
              Succeeded(o) => WrittenRight(row.user_id, body, << row >>, Written(o))

\* 3.5 kWh are stored at the price 4.32 with the cost 15.1200, and the price
\* 0.0150 is the active one now: an update of the record to 0.01 kWh may store
\* the cost 0.0001 or 0.0002.
C15_Witness ==
    /\ \E r \in records :
          /\ r.consumption_kwh = 3500 /\ r.applied_price_per_kwh = 43200
          /\ r.cost = 151200
          /\ { Written(o).cost :
                 o \in { q \in ConsumptionPatchOutcomes(records, nextRecordId, tariffs,
                                 appliances, r.user_id, r.id,
                                 ConsumptionBody(<<>>, << 100 >>, <<>>,
                                                 << 20250610 >>, <<>>)) :
                         Succeeded(q) } } = {1, 2}

\* C16: no tariff request (create, patch of price or dates, activate,
\* deactivate, delete) changes a consumption record: every step that changes
\* the tariffs table leaves the consumption_records table as it is, so a
\* record keeps the price that was active when it was written.
C16_TariffsLeaveRecords ==
    [][(tariffs' # tariffs \/ nextTariffId' # nextTariffId)
          => (records' = records /\ nextRecordId' = nextRecordId)]_vars

\* A record holds the price 4.32 while the user's active tariff has the price
\* 0.0150.
C16_Witness ==
    \E r \in records :
        /\ r.applied_price_per_kwh = 43200
        /\ \E t \in ActiveTariffs(tariffs, r.user_id) : t.price_per_kwh = 150

\* The request is answered with status and writes nothing.
ConsumptionRefused(outcomes, status) ==
    \A o \in outcomes :
        o.status = status /\ o.records = records /\ o.nextRecordId = nextRecordId

\* The request is answered with 409 listing ids of active tariffs of the user,
\* and writes nothing.
ConsumptionConflict(outcomes, u) ==
    /\ ConsumptionRefused(outcomes, 409)
    /\ \A o \in outcomes :
          /\ Len(o.active_tariff_ids) > 1
          /\ \A i \in DOMAIN o.active_tariff_ids :
                \E t \in ActiveTariffs(tariffs, u) : t.id = o.active_tariff_ids[i]

\* What C17 asks of the answers to one request of user u.
TariffCountDecides(outcomes, u) ==
    /\ \A o \in outcomes :
          Succeeded(o) => Cardinality(ActiveTariffs(tariffs, u)) = 1
    /\ Cardinality(ActiveTariffs(tariffs, u)) = 0 => ConsumptionRefused(outcomes, 400)
    /\ Cardinality(ActiveTariffs(tariffs, u)) > 1 => ConsumptionConflict(outcomes, u)

PassesEarlyChecks(body, dateFromDb) ==
    /\ ~(body.consumption_kwh # <<>> /\ body.usage_hours # <<>>)
    /\ isValidISODate(FieldOr(body.record_date, dateFromDb))

GivenAppliance(body, row) ==
    IF body.appliance_id # <<>> THEN body.appliance_id[1]
    ELSE IF row # <<>> THEN row[1].appliance_id
    ELSE 0

\* What C18 asks of the answers to one request of user u; row is <<>> for a
\* create and holds the record for an update.
KwhDecides(u, body, row, outcomes) ==
    /\ (body.consumption_kwh # <<>> /\ body.usage_hours # <<>>)
          => ConsumptionRefused(outcomes, 400)
    /\ (row = <<>> /\ body.consumption_kwh = <<>> /\ body.usage_hours = <<>>)
          => ConsumptionRefused(outcomes, 400)
    /\ (body.consumption_kwh = <<>> /\ body.usage_hours # <<>>) =>
          /\ \A o \in outcomes :
                Succeeded(o) =>
                    \E a \in appliances :
                        /\ a.user_id = u
                        /\ a.id = GivenAppliance(body, row)
                        /\ a.estimated_power > 0
                        /\ IsNearest(Written(o).consumption_kwh,
                                     a.estimated_power * body.usage_hours[1], 10000)
          /\ GivenAppliance(body, row) = 0 => ConsumptionRefused(outcomes, 400)
          /\ (\E a \in appliances :
                 /\ a.user_id = u
                 /\ a.id = GivenAppliance(body, row)
                 /\ a.estimated_power <= 0) => ConsumptionRefused(outcomes, 400)

\* C18: a create or update with both consumption_kwh and usage_hours is
\* answered with 400 and writes nothing; a create with neither is answered with
\* 400; with usage_hours the kWh written is estimated_power times hours
\* (rounded to 3 decimals) of an appliance of the caller, and the request is
\* answered with 400 and writes nothing when no appliance is given or its
\* estimated_power is not positive.
C18_KwhInputs ==
    /\ \A u \in UserIds : \A body \in ConsumptionBodiesOf(u) :
          KwhDecides(u, body, <<>>,
                     ConsumptionPostOutcomes(records, nextRecordId, tariffs,
                                             appliances, u, body))
    /\ \A row \in records : \A body \in ConsumptionBodiesOf(row.user_id) :
          KwhDecides(row.user_id, body, << row >>,
                     ConsumptionPatchOutcomes(records, nextRecordId, tariffs,
                         appliances, row.user_id, row.id, body))

-----------------------------------------------------------------------------
(* GET /api/limits/:id/progress and GET /api/reports/limits. kWh are in units
   of 0.001, percent_used in units of 0.01. *)

\* Mutant: the boundary dates are left out.
Between_Open(x, a, b) == a < x /\ x < b

\* SQL x BETWEEN a AND b, Op.between
Between(x, a, b) == a <= x /\ x <= b

\* The sum of f over S.
RECURSIVE SumOver(_, _)
SumOver(S, f) ==
    IF S = {} THEN 0
    ELSE LET x == CHOOSE x \in S : TRUE
         IN  f[x] + SumOver(S \ {x}, f)

\* SUM(consumption_kwh) over the records of userId dated between start and
\* end; 0 when there is none (sum || 0, COALESCE(..., 0)).
UsedKwh(table, userId, start, end) ==
    LET rows == { r \in table :
                    r.user_id = userId /\ Between(r.record_date, start, end) }
    IN  SumOver(rows, [r \in rows |-> r.consumption_kwh])

\* The whole percents k for which the double (k / 100) * 100 is below k:
\* 0.57 * 100 is 56.99999999999999.
FloatBelow == {29, 57, 58}

\* percent >= k for the double percent = (used / limit) * 100 and a whole k.
\* When 100 * used / limit is not k the doubles are apart by far more than
\* their rounding error; when it is k, used / limit is the double nearest to
\* k / 100, whatever used and limit are.
PercentAtLeast(used, limit, k) ==
    IF 100 * used = k * limit THEN k \notin FloatBelow
    ELSE 100 * used > k * limit

\* Number(alert_threshold_percent || 80)
ThresholdOf(row) ==
    IF row.alert_threshold_percent = 0 THEN 80 ELSE row.alert_threshold_percent

\* The body of GET /api/limits/:id/progress for a limit and the sum used; it
\* has no remaining_kwh and no status, and percent_used is null for a limit_kwh
\* that is not positive.
ProgressBody(row, used) ==
    { [ id |-> row.id, period_type |-> row.period_type,
        period_start |-> row.period_start, period_end |-> row.period_end,
        limit_kwh |-> row.limit_kwh, used_kwh |-> used, remaining_kwh |-> <<>>,
        percent_used |-> percent_used,
        alert_enabled |-> row.alert_enabled,
        alert_threshold_percent |-> ThresholdOf(row),
        threshold_reached |-> /\ row.alert_enabled
                              /\ row.limit_kwh > 0
                              /\ PercentAtLeast(used, row.limit_kwh, ThresholdOf(row)),
        limit_exceeded |-> /\ row.limit_kwh > 0
                           /\ PercentAtLeast(used, row.limit_kwh, 100),
        status |-> <<>> ]
      : percent_used \in IF row.limit_kwh > 0
                         THEN { << p >> : p \in toFixed(10000 * used, row.limit_kwh) }
                         ELSE { <<>> } }

\* Mutant: threshold_reached does not look at limit_exceeded.
normalizeLimitRow_Both(r, used) ==
    LET limitExceeded == r.limit_kwh > 0 /\ PercentAtLeast(used, r.limit_kwh, 100)
        thresholdReached == /\ r.alert_enabled
                            /\ IF r.limit_kwh > 0
                               THEN PercentAtLeast(used, r.limit_kwh, ThresholdOf(r))
                               ELSE FALSE
    IN  { [ id |-> r.id, period_type |-> r.period_type,
            period_start |-> r.period_start, period_end |-> r.period_end,
            limit_kwh |-> r.limit_kwh, used_kwh |-> used,
            remaining_kwh |-> << IF r.limit_kwh > used THEN r.limit_kwh - used ELSE 0 >>,
            percent_used |-> << p >>,
            alert_enabled |-> r.alert_enabled,
            alert_threshold_percent |-> ThresholdOf(r),
            threshold_reached |-> thresholdReached,
            limit_exceeded |-> limitExceeded,
            status |-> << IF limitExceeded THEN "limit_exceeded"
                          ELSE IF thresholdReached THEN "threshold_reached"
                          ELSE "ok" >> ]
          : p \in IF r.limit_kwh > 0 THEN toFixed(10000 * used, r.limit_kwh)
                  ELSE {0} }

\* normalizeLimitRow for a row of the report's query and its used_kwh.
normalizeLimitRow(r, used) ==
    LET limitExceeded == r.limit_kwh > 0 /\ PercentAtLeast(used, r.limit_kwh, 100)
        thresholdReached == /\ ~limitExceeded
                            /\ r.alert_enabled
                            /\ IF r.limit_kwh > 0
                               THEN PercentAtLeast(used, r.limit_kwh, ThresholdOf(r))
                               ELSE FALSE
    IN  { [ id |-> r.id, period_type |-> r.period_type,
            period_start |-> r.period_start, period_end |-> r.period_end,
            limit_kwh |-> r.limit_kwh, used_kwh |-> used,
            remaining_kwh |-> << IF r.limit_kwh > used THEN r.limit_kwh - used ELSE 0 >>,
            percent_used |-> << p >>,
            alert_enabled |-> r.alert_enabled,
            alert_threshold_percent |-> ThresholdOf(r),
            threshold_reached |-> thresholdReached,
            limit_exceeded |-> limitExceeded,
            status |-> << IF limitExceeded THEN "limit_exceeded"
                          ELSE IF thresholdReached THEN "threshold_reached"
                          ELSE "ok" >> ]
          : p \in IF r.limit_kwh > 0 THEN toFixed(10000 * used, r.limit_kwh)
                  ELSE {0} }

\* ORDER BY l.period_start DESC, l.id DESC
RECURSIVE LimitsDesc(_)
LimitsDesc(rows) ==
    IF rows = {} THEN <<>>
    ELSE LET top == CHOOSE r \in rows :
                        \A q \in rows :
                            \/ q.period_start < r.period_start
                            \/ q.period_start = r.period_start /\ q.id <= r.id
         IN  << top >> \o LimitsDesc(rows \ {top})

\* rows.map(normalizeLimitRow), then the status filter.
RECURSIVE ReportItems(_, _, _)
ReportItems(rowSeq, table, statuses) ==
    IF rowSeq = <<>> THEN { <<>> }
    ELSE { (IF statuses = {} \/ item.status[1] \in statuses THEN << item >> ELSE <<>>)
             \o rest
           : item \in normalizeLimitRow(Head(rowSeq),
                          UsedKwh(table, Head(rowSeq).user_id,
                                  Head(rowSeq).period_start, Head(rowSeq).period_end)),
             rest \in ReportItems(Tail(rowSeq), table, statuses) }

\* The totals of the report.
ReportTotals(items) ==
    LET idx == DOMAIN items
        Count(status) == Cardinality({ i \in idx : items[i].status = << status >> })
    IN  [ limits_count |-> Len(items),
          ok_count |-> Count("ok"),
          threshold_reached_count |-> Count("threshold_reached"),
          limit_exceeded_count |-> Count("limit_exceeded"),
          total_limit_kwh |-> SumOver(idx, [i \in idx |-> items[i].limit_kwh]),
          total_used_kwh |-> SumOver(idx, [i \in idx |-> items[i].used_kwh]) ]

\* fetchLimitsReportData for a query with a status filter only (statuses = {}
\* for none).
fetchLimitsReportData(limTable, table, userId, statuses) ==
    { [status |-> 200, items |-> items, totals |-> ReportTotals(items)]
      : items \in ReportItems(LimitsDesc({ l \in limTable : l.user_id = userId }),
                              table, statuses) }

\* GET /api/limits/:id/progress
LimitProgressOutcomes(limTable, table, u, id) ==
    IF ~\E l \in limTable : l.id = id /\ l.user_id = u
    THEN { [status |-> 404, items |-> <<>>, totals |-> NoTotals] }
    ELSE UNION { { [status |-> 200, items |-> << body >>, totals |-> NoTotals]
                   : body \in ProgressBody(limit,
                                  UsedKwh(table, u, limit.period_start,
                                          limit.period_end)) }
                 : limit \in { l \in limTable : l.id = id /\ l.user_id = u } }

NotProgress == <<today, tariffs, nextTariffId, limits, nextLimitId, users, auditLog,
                 reqs, calc, appliances, records, nextRecordId, device>>

LimitProgress(u, id) ==
    /\ progress' \in LimitProgressOutcomes(limits, records, u, id)
    /\ UNCHANGED NotProgress

\* GET /api/reports/limits
LimitsReport(u, statuses) ==
    /\ progress' \in fetchLimitsReportData(limits, records, u, statuses)
    /\ UNCHANGED NotProgress

\* A record as POST /api/consumption writes it at the price 0.0150.
UsageRow(id, userId, date, kwh) ==
    [ id |-> id, user_id |-> userId, appliance_id |-> 0, consumption_kwh |-> kwh,
      applied_price_per_kwh |-> 150, cost |-> (kwh * 150) \div 1000,
      record_date |-> date, notes |-> "" ]

\* The records the tables are drawn from: of the first account one on each
\* boundary date of June 2025, two inside, one on the day before and one on
\* the day after; of the second account one inside.
UsageRows ==
    { UsageRow(1, 1, 20250601, 57000), UsageRow(2, 1, 20250615, 28000),
      UsageRow(3, 1, 20250630, 15000), UsageRow(4, 1, 20250615, 42996),
      UsageRow(5, 1, 20250531, 15000), UsageRow(6, 1, 20250701, 28000),
      UsageRow(7, 2, 20250615, 57000) }

\* The status filters of the report queries.
StatusFilters == { {}, {"ok"}, {"threshold_reached", "limit_exceeded"} }

\* Each account has a limit of 100 kWh for June 2025; the threshold of the
\* first is 57 or 80 percent, with the alert enabled or not.
ProgressInit ==
    /\ \E threshold \in {57, 80}, alert \in BOOLEAN :
          limits = { [id |-> 1, user_id |-> 1, limit_kwh |-> 100000,
                      period_type |-> "month", period_start |-> 20250601,
                      period_end |-> 20250630, alert_enabled |-> alert,
                      alert_threshold_percent |-> threshold],
                     [id |-> 2, user_id |-> 2, limit_kwh |-> 100000,
                      period_type |-> "month", period_start |-> 20250601,
                      period_end |-> 20250630, alert_enabled |-> TRUE,
                      alert_threshold_percent |-> 80] }
    /\ nextLimitId = 3
    /\ records \in { S \in SUBSET UsageRows : Cardinality(S) <= MaxUsage }
    /\ nextRecordId = 8
    /\ progress = NoProgress
    /\ device = NoDevice
    /\ appliances = {}
    /\ tariffs = {} /\ nextTariffId = 1
    /\ today = 20250615
    /\ users = <<>> /\ auditLog = <<>>
    /\ reqs = <<>>
    /\ calc = NoCalc

ProgressNext ==
    \/ \E u \in UserIds, id \in 1..3 : LimitProgress(u, id)
    \/ \E u \in UserIds, statuses \in StatusFilters : LimitsReport(u, statuses)

SpecProgress == ProgressInit /\ [][ProgressNext]_vars

\* The status an answer reports for a limit: the status of the report, and for
\* the progress answer, which has the two flags only, limit_exceeded before
\* threshold_reached.
ReportedStatus(item) ==
    IF item.status # <<>> THEN item.status[1]
    ELSE IF item.limit_exceeded THEN "limit_exceeded"
    ELSE IF item.threshold_reached THEN "threshold_reached"
    ELSE "ok"

\* The status C19 gives a limit for the used_kwh reported, with percent_used
\* taken exactly as 100 * used_kwh / limit_kwh.
ExpectedStatus(row, used) ==
    IF 100 * used >= 100 * row.limit_kwh THEN "limit_exceeded"
    ELSE IF row.alert_enabled /\ 100 * used >= row.alert_threshold_percent * row.limit_kwh
    THEN "threshold_reached"
    ELSE "ok"

\* Every item of an answer reports for its limit the status C19 gives.
StatusAsExpected(answers) ==
    \A o \in answers : \A i \in DOMAIN o.items :
        \A row \in { l \in limits : l.id = o.items[i].id } :
            ReportedStatus(o.items[i]) = ExpectedStatus(row, o.items[i].used_kwh)

\* C19: for every limit the status reported, by the progress answer and by the
\* limits report, is limit_exceeded if percent_used >= 100, otherwise
\* threshold_reached if alert_enabled and percent_used >= alert_threshold_percent,
\* otherwise ok; percent_used is 100 * used_kwh / limit_kwh.
C19_StatusByPercent ==
    /\ \A row \in limits :
          StatusAsExpected(LimitProgressOutcomes(limits, records, row.user_id, row.id))
    /\ \A u \in UserIds :
          StatusAsExpected(fetchLimitsReportData(limits, records, u, {}))

\* The items that the progress answer and the limits report give for the
\* limit row, side by side.
BothAnswers(row) ==
    { << o.items[1], p.items[i] >>
      : << o, p, i >> \in
          { << o, p, i >> \in LimitProgressOutcomes(limits, records, row.user_id, row.id)
                              \X fetchLimitsReportData(limits, records, row.user_id, {})
                              \X (1..Cardinality(limits)) :
              i \in DOMAIN p.items /\ p.items[i].id = row.id } }

\* In an item of the report the two flags are mutually exclusive and the
\* status is determined by them.
ReportFlags(item) ==
    /\ ~(item.limit_exceeded /\ item.threshold_reached)
    /\ item.status = << IF item.limit_exceeded THEN "limit_exceeded"
                        ELSE IF item.threshold_reached THEN "threshold_reached"
                        ELSE "ok" >>

\* C28 as stated: the progress answer and the limits report give the same
\* limit_exceeded and the same threshold_reached for a limit; in the report the
\* two flags are mutually exclusive and status is determined by them.
C28_Original ==
    \A row \in limits : \A pair \in BothAnswers(row) :
       /\ pair[1].limit_exceeded = pair[2].limit_exceeded
       /\ pair[1].threshold_reached = pair[2].threshold_reached
       /\ ReportFlags(pair[2])

\* C28, amended: the two answers give the same limit_exceeded, and the same
\* threshold_reached for a limit that is not exceeded; for an exceeded limit
\* the report gives threshold_reached false while the progress answer gives
\* alert_enabled (the threshold, at most 100 percent, being reached as well);
\* in the report the two flags are mutually exclusive and status is
\* determined by them.
C28_FlagsAgree ==
    \A row \in limits : \A pair \in BothAnswers(row) :
       /\ pair[1].limit_exceeded = pair[2].limit_exceeded
       /\ ~pair[2].limit_exceeded => pair[1].threshold_reached = pair[2].threshold_reached
       /\ pair[2].limit_exceeded =>
             /\ ~pair[2].threshold_reached
             /\ pair[1].threshold_reached = row.alert_enabled
       /\ ReportFlags(pair[2])

\* The progress read for the first account's limit, its alert enabled, reports
\* 100 kWh used of 100, the limit exceeded and the threshold reached.
C28_Witness ==
    /\ progress.status = 200 /\ Len(progress.items) = 1
    /\ progress.items[1].status = <<>> /\ progress.items[1].id = 1
    /\ progress.items[1].limit_exceeded /\ progress.items[1].threshold_reached
    /\ progress \in LimitProgressOutcomes(limits, records, 1, 1)

\* The sum C20 names for a limit.
OwnersSum(row) ==
    LET rows == { r \in records :
                    /\ r.user_id = row.user_id
                    /\ row.period_start <= r.record_date
                    /\ r.record_date <= row.period_end }
    IN  SumOver(rows, [r \in rows |-> r.consumption_kwh])

\* Every item of an answer reports for its limit the sum C20 names.
UsedAsSummed(answers) ==
    \A o \in answers : \A i \in DOMAIN o.items :
        \A row \in { l \in limits : l.id = o.items[i].id } :
            o.items[i].used_kwh = OwnersSum(row)

\* C20: the used_kwh reported for a limit, by GET /api/limits/:id/progress and
\* by the limits report alike, is the sum of consumption_kwh over the records
\* of the limit's owner with period_start <= record_date <= period_end, both
\* boundary dates included; no record of another user and no record dated
\* outside the range is counted.
C20_UsedIsOwnersSum ==
    /\ \A row \in limits :
          /\ UsedAsSummed(LimitProgressOutcomes(limits, records, row.user_id, row.id))
          /\ \A o \in LimitProgressOutcomes(limits, records, row.user_id, row.id) :
                o.status = 200 /\ Len(o.items) = 1
    /\ \A u \in UserIds : \A statuses \in StatusFilters :
          UsedAsSummed(fetchLimitsReportData(limits, records, u, statuses))
    /\ \A u \in UserIds : \A o \in fetchLimitsReportData(limits, records, u, {}) :
          { o.items[i].id : i \in DOMAIN o.items } = { l.id : l \in { q \in limits : q.user_id = u } }

\* The first account has a record on each boundary date of its limit and the
\* second account a record inside the range; the answer read for the limit of
\* the first reports the 72 kWh of the two.
C20_Witness ==
    /\ records = { UsageRow(1, 1, 20250601, 57000), UsageRow(3, 1, 20250630, 15000),
                   UsageRow(7, 2, 20250615, 57000) }
    /\ progress \in LimitProgressOutcomes(limits, records, 1, 1)
    /\ progress.items[1].used_kwh = 72000

-----------------------------------------------------------------------------
(* middleware/auth and POST /api/auth/login: who is let in *)

\* A bearer token: the userId of its payload, and whether jwt.verify accepts
\* it (signature and expiry).
Token(userId, valid) == [userId |-> userId, valid |-> valid]

\* Mutant: is_blocked is not looked at.
auth_NoBlockCheck(table, token) ==
    IF ~token.valid THEN 401
    ELSE IF findByPk(table, token.userId) = <<>> THEN 401
    ELSE 0

\* auth(req, res, next): the status it answers with, 0 when it calls next().
auth(table, token) ==
    IF ~token.valid THEN 401
    ELSE IF findByPk(table, token.userId) = <<>> THEN 401
    ELSE IF findByPk(table, token.userId)[1].is_blocked THEN 403
    ELSE 0

\* requireAdmin(req, res, next), after auth has let the request through.
requireAdmin(table, token) ==
    IF table[token.userId].role # "admin" THEN 403 ELSE 0

\* Mutant: a blocked account that knows its password is given a token.
login_NoBlockCheck(table, id, passwordOk) ==
    IF findByPk(table, id) = <<>> THEN 401
    ELSE IF ~passwordOk THEN 401
    ELSE 200

\* POST /api/auth/login with the email of account id (of no account when id
\* is not in the table) and a password that does or does not match.
login(table, id, passwordOk) ==
    IF findByPk(table, id) = <<>> THEN 401
    ELSE IF findByPk(table, id)[1].is_blocked THEN 403
    ELSE IF ~passwordOk THEN 401
    ELSE 200

\* A response that carries a status and nothing else.
StatusOnly(status) == [status |-> status, items |-> <<>>, totals |-> NoTotals]

\* The tokens the requests to the data endpoints carry: the one issued to the
\* second account, one of its that has expired, one of an account that no
\* longer exists.
Tokens == { Token(2, TRUE), Token(2, FALSE), Token(3, TRUE) }

\* A request to an authenticated endpoint that auth does not let through.
Refused(token) ==
    /\ auth(users, token) # 0
    /\ progress' = StatusOnly(auth(users, token))
    /\ UNCHANGED NotProgress

\* auth calls next(): the request of the token's owner goes on to its handler.
\* reqs holds the accounts with requests between next() and their answers.
Passed(token) ==
    /\ auth(users, token) = 0
    /\ reqs' = reqs \cup { token.userId }
    /\ UNCHANGED <<today, tariffs, nextTariffId, limits, nextLimitId, users, auditLog,
                   calc, consumptionVars>>

\* A request of account u is in its handler.
Authed(u) == u \in reqs

\* The requests of account u that were in their handlers have been answered.
Answer(u) ==
    /\ u \in reqs
    /\ reqs' = reqs \ { u }
    /\ UNCHANGED <<today, tariffs, nextTariffId, limits, nextLimitId, users, auditLog,
                   calc, consumptionVars>>

Login(id, passwordOk) ==
    /\ progress' = StatusOnly(login(users, id, passwordOk))
    /\ UNCHANGED NotProgress

\* PATCH /api/admin/users/:id/block, one request from its first line to its
\* answer.
BlockOutcomes(table, log, caller, id, is_blocked) ==
    UNION { IF id <= 0 \/ parsed = <<>> THEN { [users |-> table, auditLog |-> log, status |-> 400] }
            ELSE IF parsed[1] /\ id = caller THEN { [users |-> table, auditLog |-> log, status |-> 400] }
            ELSE IF found = <<>> THEN { [users |-> table, auditLog |-> log, status |-> 404] }
            ELSE IF parsed[1] /\ found[1].role = "admin" /\ countActiveAdmins(table) <= 1
                 THEN { [users |-> table, auditLog |-> log, status |-> 409] }
            ELSE { [users |-> [table EXCEPT ![id].is_blocked = parsed[1]],
                    auditLog |-> IF created
                                 THEN Append(log, [admin_id |-> caller,
                                                   action |-> IF parsed[1] THEN "USER_BLOCK"
                                                              ELSE "USER_UNBLOCK",
                                                   target_user_id |-> id,
                                                   from |-> BoolStr(found[1].is_blocked),
                                                   to |-> BoolStr(parsed[1])])
                                 ELSE log,
                    status |-> 200] : created \in BOOLEAN }
            : parsed \in { parseBool(is_blocked) }, found \in { findByPk(table, id) } }

Block(caller, id, is_blocked) ==
    /\ auth(users, Token(caller, TRUE)) = 0
    /\ requireAdmin(users, Token(caller, TRUE)) = 0
    /\ Len(auditLog) < MaxAudit
    /\ \E o \in BlockOutcomes(users, auditLog, caller, id, is_blocked) :
          /\ users' = o.users
          /\ auditLog' = o.auditLog
    /\ UNCHANGED <<today, tariffs, nextTariffId, limits, nextLimitId, reqs, calc,
                   consumptionVars>>

\* What the second account sends.
AccessTariffBody ==
    [ tariff_name |-> << "night" >>, price_per_kwh |-> << 150 >>,
      valid_from |-> << 20250101 >>, valid_to |-> <<>>, is_active |-> <<>> ]

AccessLimitBody ==
    [ period_type |-> << "custom" >>, period_start |-> << 20250601 >>,
      period_end |-> << 20250630 >>, limit_kwh |-> << 1000000 >>,
      alert_enabled |-> <<>>, alert_threshold_percent |-> <<>> ]

\* The first account is the administrator; the second owns an appliance and
\* may be blocked from the start.
AccessInit ==
    /\ users \in { [id \in AccountIds |->
                      IF id = 1 THEN [role |-> "admin", is_blocked |-> FALSE]
                      ELSE [role |-> "user", is_blocked |-> b]] : b \in BOOLEAN }
    /\ auditLog = <<>>
    /\ appliances = { [id |-> 3, user_id |-> 2, estimated_power |-> 2000] }
    /\ records = {} /\ nextRecordId = 1
    /\ progress = NoProgress
    /\ device = NoDevice
    /\ tariffs = {} /\ nextTariffId = 1
    /\ today = 20250615
    /\ limits = {} /\ nextLimitId = 1
    /\ reqs = {}
    /\ calc = NoCalc

AccessNext ==
    \/ \E token \in Tokens : Refused(token)
    \/ \E token \in Tokens : Passed(token)
    \/ Answer(2)
    \/ \E passwordOk \in BOOLEAN : Login(2, passwordOk)
    \/ \E is_blocked \in {"true", "false"} : Block(1, 2, is_blocked)
    \/ Authed(2) /\ TariffPost(2, AccessTariffBody)
    \/ Authed(2) /\ LimitPost(2, AccessLimitBody)
    \/ Authed(2) /\ \E body \in ConsumptionPlainBodies : ConsumptionPost(2, body)
    \/ Authed(2) /\ \E id \in RecordIds : ConsumptionDelete(2, id)
    \/ Authed(2) /\ ApplianceDelete(2, 3)
    \/ Authed(2) /\ \E id \in LimitIds : LimitProgress(2, id)

SpecAccess == AccessInit /\ [][AccessNext]_vars

\* The tables that hold what account u owns, and the counters next to them.
OwnedBy(u) ==
    [tariffs |-> { r \in tariffs : r.user_id = u },
     limits |-> { r \in limits : r.user_id = u },
     records |-> { r \in records : r.user_id = u },
     appliances |-> { r \in appliances : r.user_id = u }]

\* Account u exists and is blocked.
Blocked(u) == u \in DOMAIN users /\ users[u].is_blocked

\* C23 as stated: a request with the valid token of a blocked user is answered
\* with 401 by every authenticated endpoint.
C23_Original ==
    \A u \in AccountIds : Blocked(u) => auth(users, Token(u, TRUE)) = 401

\* What the requests of the accounts other than the administrator can write.
Stored == <<tariffs, nextTariffId, limits, nextLimitId, records, nextRecordId, appliances>>

\* C23, amended: a request with the valid token of a blocked user is answered
\* with 403 by auth on every authenticated endpoint and never reaches a
\* handler: unless a request let through before the block is still in its
\* handler, nothing the user owns is written while the user is blocked, and
\* no response carries any of it.
C23_BlockedForbidden ==
    [][\A u \in AccountIds :
          Blocked(u) =>
            /\ auth(users, Token(u, TRUE)) = 403
            /\ u \in reqs' => u \in reqs
            /\ u \notin reqs =>
                 /\ OwnedBy(u)' = OwnedBy(u)
                 /\ Stored' = Stored
                 /\ progress' # progress => progress'.items = <<>>]_vars

\* The blocked second account, owning a tariff and a limit, has just been
\* refused with 403.
C23_Witness ==
    /\ Blocked(2) /\ 2 \notin reqs
    /\ OwnedBy(2).tariffs # {} /\ OwnedBy(2).limits # {}
    /\ progress = StatusOnly(403)

\* C29: blocking takes effect on tokens already issued. While the second
\* account is blocked, auth refuses the token issued to it before the block,
\* no request of the account is let through to a handler, every login attempt
\* of the account is refused whatever the password, and (no request let
\* through before the block being still in its handler) no stored data
\* changes; once the account is unblocked, auth accepts the same token again.
C29_BlockTakesEffect ==
    [][/\ Blocked(2) =>
            /\ auth(users, Token(2, TRUE)) = 403
            /\ \A passwordOk \in BOOLEAN : login(users, 2, passwordOk) \notin {0, 200}
            /\ 2 \in reqs' => 2 \in reqs
            /\ 2 \notin reqs => Stored' = Stored
       /\ ~Blocked(2) => auth(users, Token(2, TRUE)) = 0]_vars

\* The second account has been blocked and then unblocked, and a request with
\* its token has then been let through to its handler and has written a tariff.
C29_Witness ==
    /\ Len(auditLog) = 2
    /\ auditLog[1].action = "USER_BLOCK" /\ auditLog[2].action = "USER_UNBLOCK"
    /\ ~Blocked(2) /\ 2 \in reqs
    /\ tariffs # {}

-----------------------------------------------------------------------------
(* Two owners: what a request of one account does to the rows of the other *)

\* Tariff.findAll, Limit.findAll, ConsumptionRecord.findAll and
\* Appliance.findAll with where: { user_id: req.user.id } and no other filter.
findAllOf(table, userId) == { r \in table : r.user_id = userId }

\* PATCH /api/appliances/:id with an estimated_power and DELETE
\* /api/appliances/:id: the table left behind and the status.
AppliancePatchOutcome(table, u, id, estimated_power) ==
    IF ApplianceOf(table, id, u) = <<>> THEN [appliances |-> table, status |-> 404]
    ELSE [appliances |-> { IF a.id = id THEN [a EXCEPT !.estimated_power = estimated_power]
                           ELSE a : a \in table },
          status |-> 200]

ApplianceDeleteOutcome(table, u, id) ==
    IF ApplianceOf(table, id, u) = <<>> THEN [appliances |-> table, status |-> 404]
    ELSE [appliances |-> { a \in table : a.id # id }, status |-> 204]

\* What the accounts send: a tariff made active or not, a new price, a limit
\* for June 2025, another limit_kwh, 3.5 kWh, and 2.0005 hours of every
\* appliance there is.
OwnersTariffBodies ==
    { TariffBody(<< "day" >>, << 150 >>, << 20250101 >>, <<>>, a) : a \in { <<>>, << "false" >> } }

OwnersTariffPatches ==
    { TariffBody(<<>>, << 43200 >>, <<>>, <<>>, a) : a \in { <<>>, << "true" >> } }

OwnersLimitBodies ==
    { LimitBody(<< "custom" >>, << 20250601 >>, << 20250630 >>, << 1000000 >>, <<>>, <<>>) }

OwnersLimitPatches ==
    { LimitBody(<<>>, <<>>, <<>>, << 500000 >>, <<>>, <<>>) }

OwnersConsumptionBodies ==
    { ConsumptionBody(<<>>, << 35000 >>, <<>>, << 20250610 >>, <<>>) }
    \cup { ConsumptionBody(<< a >>, <<>>, << 20005 >>, << 20250610 >>, <<>>) : a \in {1, 3} }

\* The second account has an active tariff, a limit for June 2025 and an
\* appliance; the first account has an appliance.
OwnersInit ==
    /\ tariffs = TariffPostTx({}, 1, 2, TariffBody(<< "night" >>, << 150 >>, << 20250101 >>, <<>>, <<>>))
    /\ nextTariffId = 2
    /\ limits = { [id |-> 1, user_id |-> 2, limit_kwh |-> 100000,
                   period_type |-> "custom", period_start |-> 20250601,
                   period_end |-> 20250630, alert_enabled |-> TRUE,
                   alert_threshold_percent |-> 80] }
    /\ nextLimitId = 2
    /\ appliances = { [id |-> 1, user_id |-> 1, estimated_power |-> 1500],
                      [id |-> 3, user_id |-> 2, estimated_power |-> 2000] }
    /\ records = {} /\ nextRecordId = 1
    /\ progress = NoProgress
    /\ device = NoDevice
    /\ today = 20250615
    /\ users = <<>> /\ auditLog = <<>>
    /\ reqs = <<>>
    /\ calc = NoCalc

OwnersNext ==
    \/ \E body \in OwnersTariffBodies : TariffPost(1, body)
    \/ \E u \in UserIds, id \in TariffIds : TariffActivate(u, id)
    \/ \E body \in OwnersLimitBodies : LimitPost(1, body)
    \/ \E u \in UserIds, body \in OwnersConsumptionBodies : ConsumptionPost(u, body)
    \/ \E id \in TariffIds, body \in OwnersTariffPatches : TariffPatch(1, id, body)
    \/ \E id \in LimitIds : LimitDelete(1, id)
    \/ \E id \in RecordIds : ConsumptionDelete(1, id)
    \/ \E id \in {1, 3} : ApplianceDelete(1, id)
    \/ \E id \in LimitIds : LimitProgress(1, id)

SpecOwners == OwnersInit /\ [][OwnersNext]_vars

\* The rows of a table that are not u's.
NotOf(table, u) == { r \in table : r.user_id # u }

\* Every answer a request of u can get for the tariff, limit, record or
\* appliance id, whatever it sends.
TariffAnswers(u, id) ==
    UNION { TariffPatchOutcomes(tariffs, nextTariffId, u, id, body) : body \in OwnersTariffPatches }
    \cup TariffActivateOutcomes(tariffs, nextTariffId, u, id)
    \cup TariffDeleteOutcomes(tariffs, nextTariffId, u, id)

LimitAnswers(u, id) ==
    UNION { LimitPatchOutcomes(limits, nextLimitId, u, id, body) : body \in OwnersLimitPatches }
    \cup LimitDeleteOutcomes(limits, nextLimitId, u, id)

RecordAnswers(u, id) ==
    UNION { ConsumptionPatchOutcomes(records, nextRecordId, tariffs, appliances, u, id, body)
            : body \in OwnersConsumptionBodies }
    \cup ConsumptionDeleteOutcomes(records, nextRecordId, u, id)

ApplianceAnswers(u, id) ==
    { AppliancePatchOutcome(appliances, u, id, 1000), ApplianceDeleteOutcome(appliances, u, id) }

\* The answers to the requests that create a row.
TariffCreations(u) ==
    UNION { TariffPostOutcomes(tariffs, nextTariffId, u, body) : body \in OwnersTariffBodies }

LimitCreations(u) ==
    UNION { LimitPostOutcomes(limits, nextLimitId, u, body) : body \in OwnersLimitBodies }

RecordCreations(u, body) ==
    ConsumptionPostOutcomes(records, nextRecordId, tariffs, appliances, u, body)

\* A tariff, limit, consumption record or appliance of another account,
\* addressed by the :id of the path, is answered with 404 and no table changes.
OthersNotFound(u) ==
    /\ \A t \in NotOf(tariffs, u) : \A o \in TariffAnswers(u, t.id) :
          o.status = 404 /\ o.tariffs = tariffs
    /\ \A l \in NotOf(limits, u) :
          /\ \A o \in LimitAnswers(u, l.id) : o.status = 404 /\ o.limits = limits
          /\ \A o \in LimitProgressOutcomes(limits, records, u, l.id) :
                o.status = 404 /\ o.items = <<>>
    /\ \A r \in NotOf(records, u) : \A o \in RecordAnswers(u, r.id) :
          o.status = 404 /\ o.records = records
    /\ \A a \in NotOf(appliances, u) : \A o \in ApplianceAnswers(u, a.id) :
          o.status = 404 /\ o.appliances = appliances

\* No request of u, to its own rows or creating new ones, changes a row of
\* another account.
OthersUnchanged(u) ==
    /\ \A id \in TariffIds : \A o \in TariffAnswers(u, id) \cup TariffCreations(u) :
          NotOf(o.tariffs, u) = NotOf(tariffs, u)
    /\ \A id \in LimitIds : \A o \in LimitAnswers(u, id) \cup LimitCreations(u) :
          NotOf(o.limits, u) = NotOf(limits, u)
    /\ \A id \in RecordIds : \A o \in RecordAnswers(u, id)
                                \cup UNION { RecordCreations(u, body)
                                             : body \in OwnersConsumptionBodies } :
          NotOf(o.records, u) = NotOf(records, u)
    /\ \A id \in {1, 3} : \A o \in ApplianceAnswers(u, id) :
          NotOf(o.appliances, u) = NotOf(appliances, u)

\* What u reads (the lists, the limit progress, the limits report) holds rows
\* of u only, and a used_kwh summed over u's records only.
ReadsOwn(u) ==
    /\ \A table \in {tariffs, limits, records, appliances} :
          NotOf(findAllOf(table, u), u) = {}
    /\ \A l \in findAllOf(limits, u) :
          \A o \in LimitProgressOutcomes(limits, records, u, l.id)
                   \cup fetchLimitsReportData(limits, records, u, {}) :
             \A i \in DOMAIN o.items :
                \E own \in findAllOf(limits, u) :
                   own.id = o.items[i].id /\ o.items[i].used_kwh = OwnersSum(own)

\* The answers to the consumption requests of u, a POST or a PATCH of one of
\* u's records, whose appliance_id is the id of another account's appliance.
OthersApplianceAnswers(u) ==
    UNION { RecordCreations(u, body)
            \cup UNION { ConsumptionPatchOutcomes(records, nextRecordId, tariffs,
                                                  appliances, u, id, body)
                         : id \in { r.id : r \in findAllOf(records, u) } }
            : body \in { b \in OwnersConsumptionBodies :
                           \E a \in NotOf(appliances, u) : b.appliance_id = << a.id >> } }

\* C24 as stated: every request of u that addresses a row of another account
\* by its id, the appliance_id of a consumption request included, is answered
\* with 404; no row of another account changes; u's reads hold u's rows only.
C24_Original ==
    \A u \in UserIds :
       /\ OthersNotFound(u) /\ OthersUnchanged(u) /\ ReadsOwn(u)
       /\ \A o \in OthersApplianceAnswers(u) : o.status = 404 /\ o.records = records

\* C24, amended: a row of another account addressed by the :id of the path is
\* answered with 404; a consumption request that names another account's
\* appliance writes nothing and is answered with 404 when u has exactly one
\* active tariff, and with the 400 or 409 of the tariff lookup, which comes
\* first, otherwise; no request of u changes a row of another account
\* (activating or creating an active tariff leaves the other account's active
\* tariff active); what u reads holds rows of u only and a used_kwh summed
\* over u's records only.
C24_OwnersOnly ==
    \A u \in UserIds :
       /\ OthersNotFound(u) /\ OthersUnchanged(u) /\ ReadsOwn(u)
       /\ \A o \in OthersApplianceAnswers(u) :
             /\ o.records = records /\ o.nextRecordId = nextRecordId
             /\ o.status = (IF getActiveTariffStrict(tariffs, u).code = "OK" THEN 404
                            ELSE IF getActiveTariffStrict(tariffs, u).code = "NO_ACTIVE" THEN 400
                            ELSE 409)

\* Both accounts have an active tariff, a limit for June 2025 and an
\* appliance, the second account has a consumption record in June, and the
\* first has just read its limit's progress: 0 kWh used.
C24_Witness ==
    /\ \A u \in UserIds :
          /\ \E t \in tariffs : t.user_id = u /\ t.is_active
          /\ findAllOf(limits, u) # {} /\ findAllOf(appliances, u) # {}
    /\ findAllOf(records, 2) # {} /\ findAllOf(records, 1) = {}
    /\ progress.status = 200 /\ Len(progress.items) = 1
    /\ progress.items[1].used_kwh = 0

-----------------------------------------------------------------------------
(* PATCH /api/consumption/:id after the tariff has changed *)

\* What the account sends to the consumption handlers: 3.5 kWh; notes alone;
\* a record_date alone.
RepriceBodies ==
    { ConsumptionBody(<<>>, << 35000 >>, <<>>, << 20250610 >>, <<>>),
      ConsumptionBody(<<>>, <<>>, <<>>, <<>>, << "x" >>),
      ConsumptionBody(<<>>, <<>>, <<>>, << 20250611 >>, <<>>) }

\* The bodies that change only notes or record_date.
RepriceOnlyBodies == { b \in RepriceBodies : b.consumption_kwh = <<>> }

RepriceNext ==
    \/ \E body \in TariffPriceBodies : TariffPost(1, body)
    \/ \E id \in TariffIds : \E body \in TariffPriceBodies : TariffPatch(1, id, body)
    \/ \E id \in TariffIds : TariffActivate(1, id)
    \/ \E id \in TariffIds : TariffDelete(1, id)
    \/ \E body \in RepriceBodies : ConsumptionPost(1, body)
    \/ \E id \in RecordIds : \E body \in RepriceBodies : ConsumptionPatch(1, id, body)

SpecReprice == ConsumptionInit /\ [][RepriceNext]_vars

\* C25: a PATCH of a record of the caller that is answered with the row has
\* written the price of the tariff active at that moment and the cost of the
\* row's kWh at that price, also when the body carries only notes or only
\* record_date (such a PATCH succeeds whenever the caller has exactly one
\* active tariff); with no active tariff or more than one the PATCH is
\* answered with 400 or 409 and the record stays as it was.
C25_PatchReprices ==
    \A row \in records : \A body \in RepriceBodies :
       \A o \in ConsumptionPatchOutcomes(records, nextRecordId, tariffs, appliances,
                                         row.user_id, row.id, body) :
          IF Cardinality(ActiveTariffs(tariffs, row.user_id)) = 1
          THEN /\ body \in RepriceOnlyBodies => o.status = 200
               /\ o.status = 200 =>
                    \A t \in ActiveTariffs(tariffs, row.user_id) :
                       /\ Written(o).applied_price_per_kwh = t.price_per_kwh
                       /\ IsNearest(Written(o).cost,
                                    Written(o).consumption_kwh * t.price_per_kwh, 1000)
                       /\ Written(o).consumption_kwh =
                             (IF body.consumption_kwh = <<>> THEN row.consumption_kwh
                              ELSE body.consumption_kwh[1] \div 10)
          ELSE o.status \in {400, 409} /\ o.records = records

\* A record written at the price 4.32 has been given notes and another date
\* by two updates made after the price 0.0150 became the active one, and
\* carries that price and 3.5 kWh at that price as its cost.
C25_Witness ==
    \E r \in records :
       /\ r.notes = "x" /\ r.record_date = 20250611
       /\ r.applied_price_per_kwh = 150 /\ r.cost = 525
       /\ \E t \in tariffs : t.price_per_kwh = 43200 /\ ~t.is_active
       /\ \E t \in tariffs : t.price_per_kwh = 150 /\ t.is_active

-----------------------------------------------------------------------------
(* POST /api/tariffs: which tariff is active after it *)

\* The row a POST answered with 201 has created.
Created(o) == CHOOSE r \in o.tariffs : r.id = o.id

\* C26: a tariff created by POST /api/tariffs is stored active unless the
\* body's is_active is the literal false: with is_active absent, true, 1, 0 or
\* the string "true" the new row is active and, in the outcome of the same
\* transaction, every other tariff of the user is inactive, whatever was
\* active before; with the literal false the new row is inactive and the other
\* rows are as they were. Tariffs of other users are never changed, and a
\* refused POST writes nothing.
C26_PostMakesActive ==
    \A u \in UserIds : \A body \in TariffBodies \cup TariffBadBodies :
       \A o \in TariffPostOutcomes(tariffs, nextTariffId, u, body) :
          IF o.status = 201
          THEN /\ o.id = nextTariffId /\ Created(o).user_id = u
               /\ Created(o).is_active = (body.is_active # << "false" >>)
               /\ IF body.is_active # << "false" >>
                  THEN /\ ActiveTariffs(o.tariffs, u) = { Created(o) }
                       /\ o.tariffs \ { Created(o) }
                             = { [r EXCEPT !.is_active = r.user_id # u /\ r.is_active]
                                 : r \in tariffs }
                  ELSE o.tariffs = tariffs \cup { Created(o) }
               /\ { r \in o.tariffs : r.user_id # u } = { r \in tariffs : r.user_id # u }
          ELSE o.status = 400 /\ o.tariffs = tariffs /\ o.nextTariffId = nextTariffId

\* The first account's first tariff, once active, is inactive, and its second
\* tariff, created with is_active: 0, is the active one.
C26_Witness ==
    /\ \E r \in tariffs : r.id = 1 /\ r.user_id = 1 /\ ~r.is_active
    /\ \E r \in tariffs : r.id = 2 /\ r.user_id = 1 /\ r.is_active
    /\ nextTariffId = 3
    /\ \E body \in TariffBodies :
          /\ body.is_active = << "num0" >>
          /\ \E before \in SUBSET { [r EXCEPT !.is_active = TRUE] : r \in { q \in tariffs : q.id = 1 } } :
                /\ before # {}
                /\ TariffOutcome(tariffs, 3, 201, 2) \in TariffPostOutcomes(before, 2, 1, body)

-----------------------------------------------------------------------------
(* A limit while consumption records are added *)

\* What the accounts send to POST /api/consumption: 40, 17 and 43 kWh on a day
\* of June 2025, 17 kWh on the first day of July, -17 kWh; the second account
\* sends 43 kWh.
UsageBodiesOf(u) ==
    IF u = 1
    THEN { ConsumptionBody(<<>>, << k >>, <<>>, << 20250610 >>, <<>>)
           : k \in { 400000, 170000, 430000, -170000 } }
         \cup { ConsumptionBody(<<>>, << 170000 >>, <<>>, << 20250701 >>, <<>>) }
    ELSE { ConsumptionBody(<<>>, << 430000 >>, <<>>, << 20250610 >>, <<>>) }

\* POST /api/consumption, while the table has room.
UsagePost(u, body) ==
    \E o \in ConsumptionPostOutcomes(records, nextRecordId, tariffs, appliances, u, body) :
       /\ Cardinality(o.records) <= MaxUsage
       /\ records' = o.records
       /\ nextRecordId' = o.nextRecordId
       /\ UNCHANGED NotRecords

\* Each account has an active tariff; the first account has a limit of
\* 100 kWh for June 2025 with a threshold of 57 or 80 percent, the alert
\* enabled or not; there are no records.
UsageInit ==
    /\ \E threshold \in {57, 80}, alert \in BOOLEAN :
          limits = { [id |-> 1, user_id |-> 1, limit_kwh |-> 100000,
                      period_type |-> "month", period_start |-> 20250601,
                      period_end |-> 20250630, alert_enabled |-> alert,
                      alert_threshold_percent |-> threshold] }
    /\ nextLimitId = 2
    /\ tariffs = { [id |-> u, user_id |-> u, tariff_name |-> "day", price_per_kwh |-> 150,
                    valid_from |-> 20250101, valid_to |-> 0, is_active |-> TRUE]
                   : u \in UserIds }
    /\ nextTariffId = 3
    /\ records = {} /\ nextRecordId = 1
    /\ progress = NoProgress
    /\ device = NoDevice
    /\ appliances = {}
    /\ today = 20250615
    /\ users = <<>> /\ auditLog = <<>>
    /\ reqs = <<>>
    /\ calc = NoCalc

UsageNext ==
    \/ \E u \in UserIds : \E body \in UsageBodiesOf(u) : UsagePost(u, body)
    \/ LimitProgress(1, 1)
    \/ LimitsReport(1, {})

SpecUsage == UsageInit /\ [][UsageNext]_vars

\* The place of a status in the order ok, threshold_reached, limit_exceeded.
StatusRank(status) ==
    IF status = "ok" THEN 0 ELSE IF status = "threshold_reached" THEN 1 ELSE 2

\* Every item of an answer after a step reports, for its limit, a used_kwh not
\* below and a status not before those of every answer to the same request
\* before the step.
NotBackwards(before, after) ==
    \A o \in before, p \in after :
       \A i \in DOMAIN o.items, j \in DOMAIN p.items :
          o.items[i].id = p.items[j].id =>
             /\ p.items[j].used_kwh >= o.items[i].used_kwh
             /\ StatusRank(ReportedStatus(p.items[j])) >=
                   StatusRank(ReportedStatus(o.items[i]))

\* C27: while records are only created and the limits stay as they are, the
\* used_kwh that the progress answer and the limits report give for a limit
\* never decreases from one step to the next, and its status never moves back
\* in the order ok, threshold_reached, limit_exceeded.
C27_NeverBackwards ==
    [][\A row \in limits :
          /\ NotBackwards(LimitProgressOutcomes(limits, records, row.user_id, row.id),
                          LimitProgressOutcomes(limits', records', row.user_id, row.id))
          /\ NotBackwards(fetchLimitsReportData(limits, records, row.user_id, {}),
                          fetchLimitsReportData(limits', records', row.user_id, {}))]_vars

\* Three records of the first account add up to the 100 kWh of its limit,
\* beside one dated outside the period or one of the second account, and the
\* progress read reports the limit exceeded.
C27_Witness ==
    /\ Cardinality({ r \in records : r.user_id = 1 /\ r.record_date = 20250610 }) = 3
    /\ progress.status = 200 /\ Len(progress.items) = 1
    /\ progress.items[1].used_kwh = 100000
    /\ progress.items[1].limit_exceeded


-----------------------------------------------------------------------------
(* Iot_client/sketch.ino: the relay, the meter and the two tasks *)

\* The device meters in kWh; sessionKwh and the entries of qSend are in units
\* of 0.0001 kWh. owed and lost are not in the sketch: they remember, for the
\* properties below, a stop that a poll has made due.
\*   owed = 0  no stop is due
\*   owed = 1  a poll reported exceeded with the relay on, in this pass of loop()
\*   owed = 2  the pass in which it was reported has ended: this is the next one
\*   owed = 3  the next pass has ended with the relay never switched off
\*   lost      a due stop switched the relay off and queued nothing
\* gAnyThreshold, gAnyExceeded, gMaxPercentUsed, gAlertOn and gSending drive the
\* display, the LED and the buzzer; qCmd asks netTask for a login or a poll,
\* which netTask also does on its own timer: a poll may come at any time.

\* A session is metered while its kWh is at most MaxSession (0.0001 kWh).
MaxSession == 8

\* xQueueCreate(6, sizeof(double))
SendQueueLength == 6

\* What one pass of loop() adds to the session: power times dt, the
\* potentiometer at zero or not.
MeterSteps == {0, 4}

\* round(kwh * 1000.0) / 1000.0
RoundMilli(kwh) == ((kwh + 5) \div 10) * 10

\* enqueueConsumption: nothing under 0.001 kWh is queued, and xQueueSend with
\* a timeout of 0 gives up when the queue is full.
enqueueConsumption(q, kwh) ==
    IF RoundMilli(kwh) < 10 THEN q
    ELSE IF Len(q) >= SendQueueLength THEN q
    ELSE Append(q, RoundMilli(kwh))

\* relaySet(false); enqueueConsumption(sessionKwh); sessionKwh = 0.
SwitchOff(d) ==
    [d EXCEPT !.gRelayOn = FALSE,
              !.qSend = enqueueConsumption(d.qSend, d.sessionKwh),
              !.sessionKwh = 0,
              !.owed = 0,
              !.lost = d.lost \/ (d.owed > 0 /\ enqueueConsumption(d.qSend, d.sessionKwh) = d.qSend)]

DeviceFrame ==
    <<today, tariffs, nextTariffId, limits, nextLimitId, users, auditLog, reqs, calc,
      appliances, records, nextRecordId, progress>>

\* loop(): the session grows while the relay is on.
LoopMeter(e) ==
    /\ device.pc = "meter"
    /\ device.gRelayOn => device.sessionKwh + e <= MaxSession
    /\ device' = [device EXCEPT !.pc = "critical",
                                !.sessionKwh = IF device.gRelayOn THEN @ + e ELSE @]
    /\ UNCHANGED DeviceFrame

\* loop(): under gMux, forceStop = gForceStop and gForceStop is cleared.
LoopCritical ==
    /\ device.pc = "critical"
    /\ device' = [device EXCEPT !.pc = "stop", !.forceStop = device.gForceStop,
                                !.gForceStop = FALSE]
    /\ UNCHANGED DeviceFrame

\* loop(): if (forceStop && gRelayOn) the relay is switched off.
LoopStop ==
    /\ device.pc = "stop"
    /\ device' = IF device.forceStop /\ device.gRelayOn
                 THEN [SwitchOff(device) EXCEPT !.pc = "mode"]
                 ELSE [device EXCEPT !.pc = "mode"]
    /\ UNCHANGED DeviceFrame

\* loop(): the mode button steps modeIndex, 0 manual and 1 auto.
LoopMode(pressed) ==
    /\ device.pc = "mode"
    /\ device' = [device EXCEPT !.pc = "toggle",
                                !.modeIndex = IF pressed THEN 1 - @ ELSE @]
    /\ UNCHANGED DeviceFrame

\* loop(): the toggle button reads gLimitBlocked, outside gMux, and only
\* beeps when it is set.
LoopToggle(pressed) ==
    /\ device.pc = "toggle"
    /\ device' = [device EXCEPT !.pc = IF pressed /\ ~device.gLimitBlocked
                                       THEN "act" ELSE "auto"]
    /\ UNCHANGED DeviceFrame

\* loop(): the toggle that was let through switches the relay.
LoopAct ==
    /\ device.pc = "act"
    /\ device' = IF ~device.gRelayOn
                 THEN [device EXCEPT !.pc = "auto", !.sessionKwh = 0, !.gRelayOn = TRUE]
                 ELSE [SwitchOff(device) EXCEPT !.pc = "auto", !.gRelayOn = FALSE]
    /\ UNCHANGED DeviceFrame

\* One pass of loop() has ended.
PassEnded(d) ==
    [d EXCEPT !.pc = "meter", !.owed = IF @ \in {1, 2} THEN @ + 1 ELSE @]

\* loop(): in auto mode with the relay on, the session so far is queued when
\* its period has passed; then the pass ends.
LoopAuto(due) ==
    /\ device.pc = "auto"
    /\ device' = IF device.modeIndex = 1 /\ device.gRelayOn /\ due
                 THEN PassEnded([device EXCEPT
                                   !.qSend = enqueueConsumption(@, device.sessionKwh),
                                   !.sessionKwh = 0])
                 ELSE PassEnded(device)
    /\ UNCHANGED DeviceFrame

\* netTask: an entry of qSend is received and posted.
NetSend ==
    /\ device.qSend # <<>>
    /\ device' = [device EXCEPT !.qSend = Tail(@)]
    /\ UNCHANGED DeviceFrame

\* apiPollAllLimitsProgress without gForceStop.
apiPollAllLimitsProgress_NoForce(d, excAny) ==
    [d EXCEPT !.gLimitBlocked = excAny,
              !.owed = IF excAny /\ d.gRelayOn /\ @ = 0 THEN 1 ELSE @]

\* apiPollAllLimitsProgress: what it writes under gMux once the answers are
\* in; excAny is whether any limit was reported exceeded.
apiPollAllLimitsProgress(d, excAny) ==
    [d EXCEPT !.gLimitBlocked = excAny,
              !.gForceStop = @ \/ excAny,
              !.owed = IF excAny /\ d.gRelayOn /\ @ = 0 THEN 1 ELSE @]

\* netTask: a poll of the limits, on its timer or on CMD_POLL_LIMITS. A poll
\* whose request fails returns before it writes anything.
NetPoll(excAny) ==
    /\ device' = apiPollAllLimitsProgress(device, excAny)
    /\ UNCHANGED DeviceFrame

DeviceInit ==
    /\ today = 20250615
    /\ tariffs = {}
    /\ nextTariffId = 1
    /\ limits = {}
    /\ nextLimitId = 1
    /\ users = [u \in AccountIds |-> [role |-> "user", is_blocked |-> FALSE]]
    /\ auditLog = <<>>
    /\ reqs = {}
    /\ calc = NoCalc
    /\ appliances = {}
    /\ records = {}
    /\ nextRecordId = 1
    /\ progress = NoProgress
    /\ device = NoDevice

DeviceNext ==
    \/ \E e \in MeterSteps : LoopMeter(e)
    \/ LoopCritical
    \/ LoopStop
    \/ \E pressed \in BOOLEAN : LoopMode(pressed)
    \/ \E pressed \in BOOLEAN : LoopToggle(pressed)
    \/ LoopAct
    \/ \E due \in BOOLEAN : LoopAuto(due)
    \/ NetSend
    \/ \E excAny \in BOOLEAN : NetPoll(excAny)

SpecDevice == DeviceInit /\ [][DeviceNext]_vars


\* The relay goes from on to off in this step.
SwitchedOff == device.gRelayOn /\ ~device'.gRelayOn

\* A step of loop() leaves the toggle button: with gLimitBlocked set it goes
\* on to the end of the pass and the relay stays as it is, and the relay is
\* switched on only by a toggle that was let through.
BlockedToggleKeepsOff ==
    /\ (device.pc = "toggle" /\ device'.pc # "toggle" /\ device.gLimitBlocked) =>
         (device'.pc = "auto" /\ device'.gRelayOn = device.gRelayOn)
    /\ (device'.pc = "act" /\ device.pc # "act") =>
         (device.pc = "toggle" /\ ~device.gLimitBlocked)
    /\ (~device.gRelayOn /\ device'.gRelayOn) => device.pc = "act"

\* C30 as stated: under every interleaving of netTask and loop(), once a poll
\* has reported a limit exceeded with the relay on, the relay is switched off
\* and the session's kWh is in qSend by the end of the next pass of loop(),
\* and a toggle press that finds gLimitBlocked set never switches the relay on.
C30_Original ==
    [][/\ device'.owed # 3
       /\ ~device'.lost
       /\ SwitchedOff => device'.sessionKwh = 0
       /\ BlockedToggleKeepsOff]_vars

\* C30: under every interleaving of netTask and loop(), once a poll has
\* reported a limit exceeded with the relay on, the relay is switched off by
\* the end of the next pass of loop(); the step that switches it off hands
\* the session's kWh to enqueueConsumption and starts the session anew, and
\* the kWh is left out of qSend only when it rounds to less than 0.001 kWh or
\* qSend holds SendQueueLength entries; a toggle press that finds
\* gLimitBlocked set never switches the relay on.
C30_ForcedStop ==
    [][/\ device'.owed # 3
       /\ SwitchedOff =>
            /\ device'.qSend = enqueueConsumption(device.qSend, device.sessionKwh)
            /\ device'.sessionKwh = 0
            /\ device'.owed = 0
            /\ device'.qSend = device.qSend =>
                 \/ RoundMilli(device.sessionKwh) < 10
                 \/ Len(device.qSend) = SendQueueLength
            /\ device'.qSend # device.qSend =>
                 device'.qSend = Append(device.qSend, RoundMilli(device.sessionKwh))
       /\ (device'.lost /\ ~device.lost) => (SwitchedOff /\ device.owed > 0)
       /\ BlockedToggleKeepsOff]_vars

\* A poll reported a limit exceeded with the relay on, loop() took it up in
\* its next critical section and switched the relay off, and the session was
\* too short to be queued.
C30_Witness ==
    /\ device.lost /\ device.pc = "mode" /\ device.forceStop
    /\ ~device.gRelayOn /\ device.gLimitBlocked /\ device.owed = 0

====
